---------------------------- MODULE Spec2Model ----------------------------
(***************************************************************************)
(* A model of FlipChanger (flipchanger-app/flipchanger.c): the slot cache, *)
(* the JSON codec, the changer registry and the view/input state machine.  *)
(*                                                                         *)
(* Text is modelled as sequences of one-character strings, documents on    *)
(* the SD card as such sequences, and the reader and the writer scan and   *)
(* emit them character by character as the C code does.  A position in a   *)
(* document is a 1-based index; position Len(json)+1 is the terminating    *)
(* NUL that the code stores after the bytes it read.                       *)
(***************************************************************************)
EXTENDS Integers, Sequences, FiniteSets, TLC

VARIABLES
    app,      \* the FlipChangerApp structure
    files,    \* the SD card: file stem -> document
    phase,    \* position of flipchanger_main: "boot", "loop", "exit", "done"
    last,     \* the step that produced this state
    prev      \* app and files before that step

vars == <<app, files, phase, last, prev>>

---------------------------------------------------------------------------
(* flipchanger.h                                                           *)

MAX_SLOTS == 200
MIN_SLOTS == 3
DEFAULT_SLOTS == 100
SLOT_CACHE_SIZE == 10
MAX_ARTIST_LENGTH == 64
MAX_ALBUM_LENGTH == 64
MAX_GENRE_LENGTH == 32
MAX_TRACK_TITLE_LENGTH == 64
MAX_NOTES_LENGTH == 256
MAX_TRACKS == 20
TRACK_DURATION_SIZE == 16
MAX_CHANGERS == 10
CHANGER_ID_LEN == 24
CHANGER_NAME_LEN == 33
CHANGER_LOCATION_LEN == 33

(* sizes of the read buffers of load_data / migrate and of load_changers *)
DATA_BUFFER_SIZE == 2048
CHANGERS_BUFFER_SIZE == 512

---------------------------------------------------------------------------
(* Characters and C strings                                                *)

NUL == "NUL"
QUOTE == "\""
BACKSLASH == "\\"

Min(x, y) == IF x < y THEN x ELSE y
Max(x, y) == IF x > y THEN x ELSE y

\* *p for a pointer p into the NUL-terminated buffer json
At(json, p) == IF p >= 1 /\ p <= Len(json) THEN json[p] ELSE NUL

Digits == <<"0","1","2","3","4","5","6","7","8","9">>
IsDigit(c) == \E d \in 1..10 : Digits[d] = c
DigitValue(c) == (CHOOSE d \in 1..10 : Digits[d] = c) - 1

\* value * 10 + digit on int32_t.  Every number the model reads or types has
\* at most nine digits, so the C arithmetic never overflows here.
Accumulate(value, digit) == value * 10 + digit

RECURSIVE NatToChars(_)
NatToChars(n) == IF n < 10 THEN <<Digits[n + 1]>>
                 ELSE NatToChars(n \div 10) \o <<Digits[(n % 10) + 1]>>

\* printf("%ld", n)
FormatLong(n) == IF n < 0 THEN <<"-">> \o NatToChars(-n) ELSE NatToChars(n)

\* snprintf(buf, size, ...): at most size-1 characters are kept
Snprintf(size, text) == SubSeq(text, 1, Min(Len(text), size - 1))

\* strncpy(dst, src, n - 1); dst[n - 1] = '\0'
Strncpy(src, n) == SubSeq(src, 1, Min(Len(src), n - 1))

\* atoi on a duration string: leading decimal digits
RECURSIVE AtoiFrom(_, _, _)
AtoiFrom(s, i, acc) ==
    IF i <= Len(s) /\ IsDigit(s[i])
    THEN AtoiFrom(s, i + 1, Accumulate(acc, DigitValue(s[i])))
    ELSE acc
Atoi(s) == IF Len(s) > 0 /\ s[1] = "-" THEN -AtoiFrom(s, 2, 0) ELSE AtoiFrom(s, 1, 0)

---------------------------------------------------------------------------
(* JSON helpers (flipchanger.c 155-237, 629-648)                           *)

IsSpace(c) == c \in {" ", "\t", "\n", "\r"}

RECURSIVE skip_whitespace(_, _)
skip_whitespace(json, p) ==
    IF IsSpace(At(json, p)) THEN skip_whitespace(json, p + 1) ELSE p

\* strstr(json + p, pat): position of the first occurrence at or after p, 0 if none
MatchAt(json, p, pat) == \A j \in 1..Len(pat) : At(json, p + j - 1) = pat[j]

Strstr(json, p, pat) ==
    LET hits == {i \in p..(Len(json) - Len(pat) + 1) : MatchAt(json, i, pat)}
    IN  IF hits = {} THEN 0 ELSE CHOOSE i \in hits : \A j \in hits : i <= j

\* Position just after the colon of the first "key" at or after p; 0 is NULL.
find_json_key(json, p, key) ==
    LET key_pattern == Snprintf(64, <<QUOTE>> \o key \o <<QUOTE>>)
        found == Strstr(json, p, key_pattern)
    IN  IF found = 0 THEN 0
        ELSE LET q == skip_whitespace(json, found + Len(key_pattern))
             IN  IF At(json, q) = ":" THEN q + 1 ELSE 0

RECURSIVE ReadStringLoop(_, _, _, _)
ReadStringLoop(json, p, buffer, buffer_size) ==
    IF At(json, p) # NUL /\ At(json, p) # QUOTE /\ Len(buffer) < buffer_size - 1
    THEN IF At(json, p) = BACKSLASH /\ At(json, p + 1) = QUOTE
         THEN ReadStringLoop(json, p + 2, Append(buffer, QUOTE), buffer_size)
         ELSE ReadStringLoop(json, p + 1, Append(buffer, At(json, p)), buffer_size)
    ELSE [buffer |-> buffer, p |-> IF At(json, p) = QUOTE THEN p + 1 ELSE p]

\* [ok, buffer, p]: ok = FALSE is the NULL return, which leaves the buffer alone
read_json_string(json, from, old, buffer_size) ==
    LET p == skip_whitespace(json, from)
    IN  IF At(json, p) # QUOTE THEN [ok |-> FALSE, buffer |-> old, p |-> 0]
        ELSE LET r == ReadStringLoop(json, p + 1, <<>>, buffer_size)
             IN  [ok |-> TRUE, buffer |-> r.buffer, p |-> r.p]

RECURSIVE ReadIntLoop(_, _, _)
ReadIntLoop(json, p, value) ==
    IF IsDigit(At(json, p))
    THEN ReadIntLoop(json, p + 1, Accumulate(value, DigitValue(At(json, p))))
    ELSE [value |-> value, p |-> p]

read_json_int(json, from) ==
    LET p == skip_whitespace(json, from)
        negative == At(json, p) = "-"
        r == ReadIntLoop(json, IF negative THEN p + 1 ELSE p, 0)
    IN  [value |-> IF negative THEN -r.value ELSE r.value, p |-> r.p]

TRUE_TOKEN == <<"t","r","u","e">>
FALSE_TOKEN == <<"f","a","l","s","e">>

\* [ok, value]: ok = FALSE is the NULL return, which leaves *value alone
read_json_bool(json, from, old) ==
    LET p == skip_whitespace(json, from)
    IN  IF MatchAt(json, p, TRUE_TOKEN) THEN [ok |-> TRUE, value |-> TRUE]
        ELSE IF MatchAt(json, p, FALSE_TOKEN) THEN [ok |-> TRUE, value |-> FALSE]
        ELSE [ok |-> FALSE, value |-> old]

RECURSIVE EscapeFrom(_, _)
EscapeFrom(str, i) ==
    IF i > Len(str) THEN <<>>
    ELSE (IF str[i] = QUOTE \/ str[i] = BACKSLASH THEN <<BACKSLASH, str[i]>> ELSE <<str[i]>>)
         \o EscapeFrom(str, i + 1)

\* the bytes write_json_string emits
write_json_string(str) == <<QUOTE>> \o EscapeFrom(str, 1) \o <<QUOTE>>

---------------------------------------------------------------------------
(* Literal text of the two document formats and of the file names          *)

K_version == <<"v","e","r","s","i","o","n">>
K_total_slots == <<"t","o","t","a","l","_","s","l","o","t","s">>
K_slots == <<"s","l","o","t","s">>
K_slot == <<"s","l","o","t">>
K_occupied == <<"o","c","c","u","p","i","e","d">>
K_artist == <<"a","r","t","i","s","t">>
K_album_artist == <<"a","l","b","u","m","_","a","r","t","i","s","t">>
K_album == <<"a","l","b","u","m">>
K_year == <<"y","e","a","r">>
K_disc_number == <<"d","i","s","c","_","n","u","m","b","e","r">>
K_genre == <<"g","e","n","r","e">>
K_tracks == <<"t","r","a","c","k","s">>
K_notes == <<"n","o","t","e","s">>
K_title == <<"t","i","t","l","e">>
K_duration == <<"d","u","r","a","t","i","o","n">>
K_num == <<"n","u","m">>
K_last_used_id == <<"l","a","s","t","_","u","s","e","d","_","i","d">>
K_changers == <<"c","h","a","n","g","e","r","s">>
K_id == <<"i","d">>
K_name == <<"n","a","m","e">>
K_location == <<"l","o","c","a","t","i","o","n">>
CHANGERS_STEM == <<"c","h","a","n","g","e","r","s">>
DATA_STEM == <<"d","a","t","a">>
CHANGER_0 == <<"c","h","a","n","g","e","r","_","0">>
CHANGER_PREFIX == <<"c","h","a","n","g","e","r","_">>
DEFAULT_NAME == <<"D","e","f","a","u","l","t">>

\* static const char* CHAR_SET; index 39 is treated as DEL
CHAR_SET == <<"A","B","C","D","E","F","G","H","I","J","K","L","M","N","O","P","Q","R","S","T","U","V","W","X","Y","Z","0","1","2","3","4","5","6","7","8","9"," ",".","-",",">>
CHAR_DEL_INDEX == 39

\* fragments written by flipchanger_save_data
DATA_HEADER_A == <<"{","\"","v","e","r","s","i","o","n","\"",":","1",",","\"","t","o","t","a","l","_","s","l","o","t","s","\"",":">>
DATA_HEADER_B == <<",","\"","s","l","o","t","s","\"",":","[">>
SLOT_A == <<"\"","s","l","o","t","\"",":">>
OCC_A == <<"\"","o","c","c","u","p","i","e","d","\"",":">>
ARTIST_A == <<"\"","a","r","t","i","s","t","\"",":">>
ALBUM_ARTIST_A == <<"\"","a","l","b","u","m","_","a","r","t","i","s","t","\"",":">>
ALBUM_A == <<"\"","a","l","b","u","m","\"",":">>
YEAR_A == <<"\"","y","e","a","r","\"",":">>
DISC_A == <<",","\"","d","i","s","c","_","n","u","m","b","e","r","\"",":">>
GENRE_A == <<"\"","g","e","n","r","e","\"",":">>
TRACKS_A == <<"\"","t","r","a","c","k","s","\"",":","[">>
TRACKS_Z == <<"]",",">>
NOTES_A == <<"\"","n","o","t","e","s","\"",":">>
NUM_A == <<"\"","n","u","m","\"",":">>
TITLE_A == <<"\"","t","i","t","l","e","\"",":">>
DURATION_A == <<"\"","d","u","r","a","t","i","o","n","\"",":">>
FOOTER == <<"]","}">>

\* fragments written by flipchanger_save_changers
REG_HEADER == <<"{","\"","v","e","r","s","i","o","n","\"",":","1",",","\"","l","a","s","t","_","u","s","e","d","_","i","d","\"",":">>
REG_CHANGERS == <<",","\"","c","h","a","n","g","e","r","s","\"",":","[">>
REG_ID == <<"\"","i","d","\"",":">>
REG_NAME == <<",","\"","n","a","m","e","\"",":">>
REG_LOCATION == <<",","\"","l","o","c","a","t","i","o","n","\"",":">>
REG_SLOTS == <<",","\"","t","o","t","a","l","_","s","l","o","t","s","\"",":">>

---------------------------------------------------------------------------
(* Data model (flipchanger.h: Changer, Track, CD, Slot, FlipChangerApp).   *)
(* Arrays are functions on 0..n-1 as in C; text is a sequence of           *)
(* characters without its terminating NUL.                                 *)

EmptyCD ==
    [artist |-> <<>>, album_artist |-> <<>>, album |-> <<>>, year |-> 0,
     disc_number |-> 0, genre |-> <<>>, tracks |-> <<>>, track_count |-> 0,
     notes |-> <<>>]

EmptyTrack(number) == [number |-> number, title |-> <<>>, duration |-> <<>>]

EmptySlot(i) == [slot_number |-> i + 1, occupied |-> FALSE, cd |-> EmptyCD]

ZeroChanger == [id |-> <<>>, name |-> <<>>, location |-> <<>>, total_slots |-> 0]

\* tracks[0 .. track_count-1] of a CD, kept as the sequence of its entries
TrackAt(cd, t) == cd.tracks[t + 1]

\* void flipchanger_init_slots(app, total_slots)
flipchanger_init_slots(a, total_slots) ==
    [a EXCEPT !.total_slots = IF total_slots < MIN_SLOTS THEN MIN_SLOTS
                              ELSE IF total_slots > MAX_SLOTS THEN MAX_SLOTS
                              ELSE total_slots,
              !.slots = [i \in 0..(SLOT_CACHE_SIZE - 1) |-> EmptySlot(i)],
              !.cache_start_index = 0,
              !.current_slot_index = 0,
              !.selected_index = 0,
              !.scroll_offset = 0,
              !.details_scroll_offset = 0,
              !.editing_slot_count = FALSE,
              !.edit_slot_count_pos = 0]

\* The file that holds the current changer's slots.  A file is named by the
\* stem between "/ext/apps/Tools/flipchanger_" and ".json".
flipchanger_get_slots_path(a) ==
    IF a.current_changer_id # <<>> THEN a.current_changer_id ELSE DATA_STEM

IndexValid(a) ==
    a.current_changer_index >= 0 /\ a.current_changer_index < a.changer_count

\* storage_file_open(..., FSAM_READ, FSOM_OPEN_EXISTING) followed by one read
\* of at most size-1 bytes; sd is whether the card answers
CanOpenExisting(f, path, sd) == sd /\ path \in DOMAIN f
ReadBuffer(f, path, size) == SubSeq(f[path], 1, Min(Len(f[path]), size - 1))

\* storage_file_open(..., FSAM_WRITE, FSOM_CREATE_ALWAYS), writes, close
WriteFile(f, path, text) ==
    [s \in (DOMAIN f) \cup {path} |-> IF s = path THEN text ELSE f[s]]

---------------------------------------------------------------------------
(* flipchanger_save_data (flipchanger.c 651-771)                           *)

RECURSIVE TracksText(_, _)
TracksText(cd, t) ==
    IF ~(t < cd.track_count /\ t < MAX_TRACKS) THEN <<>>
    ELSE (IF t > 0 THEN <<",">> ELSE <<>>)
         \o <<"{">>
         \o Snprintf(32, NUM_A \o FormatLong(TrackAt(cd, t).number) \o <<",">>)
         \o TITLE_A \o write_json_string(TrackAt(cd, t).title) \o <<",">>
         \o DURATION_A \o write_json_string(TrackAt(cd, t).duration)
         \o <<"}">>
         \o TracksText(cd, t + 1)

SlotText(slot) ==
    <<"{">>
    \o Snprintf(32, SLOT_A \o FormatLong(slot.slot_number) \o <<",">>)
    \o Snprintf(24, OCC_A \o (IF slot.occupied THEN TRUE_TOKEN ELSE FALSE_TOKEN) \o <<",">>)
    \o (IF slot.occupied
        THEN ARTIST_A \o write_json_string(slot.cd.artist) \o <<",">>
             \o ALBUM_ARTIST_A \o write_json_string(slot.cd.album_artist) \o <<",">>
             \o ALBUM_A \o write_json_string(slot.cd.album) \o <<",">>
             \o Snprintf(32, YEAR_A \o FormatLong(slot.cd.year)
                             \o DISC_A \o FormatLong(slot.cd.disc_number) \o <<",">>)
             \o GENRE_A \o write_json_string(slot.cd.genre) \o <<",">>
             \o TRACKS_A \o TracksText(slot.cd, 0) \o TRACKS_Z
             \o NOTES_A \o write_json_string(slot.cd.notes)
        ELSE <<>>)
    \o <<"}">>

RECURSIVE SlotsText(_, _)
SlotsText(a, i) ==
    IF ~(i < SLOT_CACHE_SIZE /\ i < a.total_slots) THEN <<>>
    ELSE (IF i > 0 THEN <<",">> ELSE <<>>) \o SlotText(a.slots[i]) \o SlotsText(a, i + 1)

DataText(a) ==
    Snprintf(128, DATA_HEADER_A \o FormatLong(a.total_slots) \o DATA_HEADER_B)
    \o SlotsText(a, 0) \o FOOTER

\* bool flipchanger_save_data(app): [app, files, result]
flipchanger_save_data(a, f, sd) ==
    IF ~sd THEN [app |-> a, files |-> f, result |-> FALSE]
    ELSE [app |-> [a EXCEPT !.dirty = FALSE],
          files |-> WriteFile(f, flipchanger_get_slots_path(a), DataText(a)),
          result |-> TRUE]

---------------------------------------------------------------------------
(* flipchanger_load_data (flipchanger.c 439-627)                           *)

\* while(*p && *p != '}' && *p != ']') p++;
\* (the position of the first stop character at or after p, else of the NUL)
ScanTo(json, p, stops) ==
    LET hits == {i \in p..Len(json) : json[i] \in stops}
    IN  IF hits = {} THEN Max(p, Len(json) + 1)
        ELSE CHOOSE i \in hits : \A j \in hits : i <= j

SkipIf(json, p, c) == IF At(json, p) = c THEN p + 1 ELSE p

StringField(json, p, key, old, size) ==
    LET k == find_json_key(json, p, key)
    IN  IF k = 0 THEN old ELSE read_json_string(json, k, old, size).buffer

IntField(json, p, key, old) ==
    LET k == find_json_key(json, p, key)
    IN  IF k = 0 THEN old ELSE read_json_int(json, k).value

\* one track object at track_p (lines 582-601)
ParseTrack(json, track_p, track_count) ==
    [number |-> IntField(json, track_p, K_num, track_count + 1),
     title |-> StringField(json, track_p, K_title, <<>>, MAX_TRACK_TITLE_LENGTH),
     duration |-> StringField(json, track_p, K_duration, <<>>, TRACK_DURATION_SIZE - 1)]

\* the tracks loop (lines 578-606): the tracks read
RECURSIVE LoadTracks(_, _, _)
LoadTracks(json, from, tracks) ==
    IF At(json, from) = NUL \/ ~(Len(tracks) < MAX_TRACKS) THEN tracks
    ELSE LET track_p == skip_whitespace(json, from)
         IN  IF At(json, track_p) = "]" THEN tracks
             ELSE IF At(json, track_p) = "{"
             THEN LET e == SkipIf(json, ScanTo(json, track_p, {"}"}), "}")
                  IN  LoadTracks(json, SkipIf(json, e, ","),
                                 Append(tracks, ParseTrack(json, track_p, Len(tracks))))
             ELSE LoadTracks(json, SkipIf(json, track_p + 1, ","), tracks)

\* the CD of an occupied slot object at p (lines 541-616)
ParseCD(json, p) ==
    LET tracks_key == find_json_key(json, p, K_tracks)
        tracks_start == IF tracks_key = 0 THEN 0 ELSE skip_whitespace(json, tracks_key)
        tracks == IF tracks_key # 0 /\ At(json, tracks_start) = "["
                  THEN LoadTracks(json, tracks_start + 1, <<>>)
                  ELSE <<>>
        disc == IntField(json, p, K_disc_number, 0)
    IN  [artist |-> StringField(json, p, K_artist, <<>>, MAX_ARTIST_LENGTH),
         album_artist |-> StringField(json, p, K_album_artist, <<>>, MAX_ARTIST_LENGTH),
         album |-> StringField(json, p, K_album, <<>>, MAX_ALBUM_LENGTH),
         year |-> IntField(json, p, K_year, 0),
         disc_number |-> IF disc < 0 THEN 0 ELSE disc,
         genre |-> StringField(json, p, K_genre, <<>>, MAX_GENRE_LENGTH),
         tracks |-> tracks,
         track_count |-> Len(tracks),
         notes |-> StringField(json, p, K_notes, <<>>, MAX_NOTES_LENGTH)]

\* one slot object whose text starts at p, just after its '{' (lines 521-616)
ParseSlot(json, p, slot_index) ==
    LET occ_key == find_json_key(json, p, K_occupied)
        occupied == IF occ_key = 0 THEN FALSE ELSE read_json_bool(json, occ_key, FALSE).value
    IN  [slot_number |-> IntField(json, p, K_slot, slot_index + 1),
         occupied |-> occupied,
         cd |-> IF occupied THEN ParseCD(json, p) ELSE EmptyCD]

\* the slots loop (lines 511-624): the cache after it
RECURSIVE LoadSlots(_, _, _, _, _)
LoadSlots(json, from, slot_index, slots, total_slots) ==
    IF At(json, from) = NUL \/ ~(slot_index < SLOT_CACHE_SIZE /\ slot_index < total_slots)
    THEN slots
    ELSE LET p == skip_whitespace(json, from)
         IN  IF At(json, p) = "]" THEN slots
             ELSE IF At(json, p) # "{"
             THEN LoadSlots(json, p + 1, slot_index, slots, total_slots)
             ELSE LET e == SkipIf(json, ScanTo(json, p + 1, {"}", "]"}), "}")
                  IN  LoadSlots(json, SkipIf(json, e, ","), slot_index + 1,
                                [slots EXCEPT ![slot_index] = ParseSlot(json, p + 1, slot_index)],
                                total_slots)

\* bool flipchanger_load_data(app): the app after it (it always returns true)
flipchanger_load_data(a, f, sd) ==
    LET slots == IF IndexValid(a) THEN a.changers[a.current_changer_index].total_slots
                 ELSE DEFAULT_SLOTS
        a1 == [flipchanger_init_slots(a, slots) EXCEPT !.total_slots = slots]
        path == flipchanger_get_slots_path(a1)
    IN  IF ~CanOpenExisting(f, path, sd) THEN a1
        ELSE LET json == ReadBuffer(f, path, DATA_BUFFER_SIZE)
                 ts_key == find_json_key(json, 1, K_total_slots)
                 total_slots == IF ts_key = 0 THEN DEFAULT_SLOTS
                                ELSE read_json_int(json, ts_key).value
                 a2 == IF ts_key # 0 /\ total_slots >= MIN_SLOTS /\ total_slots <= MAX_SLOTS
                       THEN [a1 EXCEPT !.total_slots = total_slots,
                                       !.changers = IF IndexValid(a1)
                                                    THEN [a1.changers EXCEPT
                                                          ![a1.current_changer_index].total_slots = total_slots]
                                                    ELSE a1.changers]
                       ELSE a1
                 slots_key == find_json_key(json, 1, K_slots)
                 p == IF slots_key = 0 THEN 0 ELSE skip_whitespace(json, slots_key)
             IN  IF slots_key = 0 \/ At(json, p) # "[" THEN a2
                 ELSE [a2 EXCEPT !.slots = LoadSlots(json, p + 1, 0, a2.slots, a2.total_slots)]

---------------------------------------------------------------------------
(* Slot cache (flipchanger.c 45-121)                                       *)

\* Slot* flipchanger_get_slot(app, slot_index): the cache index, -1 is NULL
flipchanger_get_slot(a, slot_index) ==
    IF slot_index < 0 \/ slot_index >= a.total_slots THEN -1
    ELSE LET cache_index == slot_index - a.cache_start_index
         IN  IF cache_index >= 0 /\ cache_index < SLOT_CACHE_SIZE THEN cache_index
             ELSE -1

\* a start that is not centred: the window would begin at slot_index itself
NewCacheStartAtIndex(a, slot_index) ==
    IF slot_index + SLOT_CACHE_SIZE > a.total_slots
    THEN Max(a.total_slots - SLOT_CACHE_SIZE, 0)
    ELSE Max(slot_index, 0)

\* the start update_cache computes for slot_index (lines 91-100)
NewCacheStart(a, slot_index) ==
    LET centred == Max(slot_index - (SLOT_CACHE_SIZE \div 2), 0)
    IN  IF centred + SLOT_CACHE_SIZE > a.total_slots
        THEN Max(a.total_slots - SLOT_CACHE_SIZE, 0)
        ELSE centred

\* the renumbering loop of update_cache (lines 117-119)
Renumber(a) ==
    [a EXCEPT !.slots = [i \in 0..(SLOT_CACHE_SIZE - 1) |->
        IF i < a.total_slots
        THEN [a.slots[i] EXCEPT !.slot_number = a.cache_start_index + i + 1]
        ELSE a.slots[i]]]

\* if(app->dirty && app->storage) flipchanger_save_data(app): [app, files, result]
SavedIfDirty(a, f, sd) ==
    IF a.dirty THEN flipchanger_save_data(a, f, sd)
    ELSE [app |-> a, files |-> f, result |-> TRUE]

\* the reload, the new start and the renumbering (lines 110-119): [app, files]
Reloaded(saved, sd, new_cache_start) ==
    [app |-> Renumber([flipchanger_load_data(saved.app, saved.files, sd) EXCEPT
                           !.cache_start_index = new_cache_start]),
     files |-> saved.files]

\* void flipchanger_update_cache(app, slot_index): [app, files]
flipchanger_update_cache(a, f, sd, slot_index) ==
    IF NewCacheStart(a, slot_index) # a.cache_start_index
    THEN Reloaded(SavedIfDirty(a, f, sd), sd, NewCacheStart(a, slot_index))
    ELSE [app |-> a, files |-> f]

\* bool flipchanger_load_slot_from_sd(app, slot_index): the app after it
flipchanger_load_slot_from_sd(a, f, sd, slot_index) ==
    IF slot_index < 0 \/ slot_index >= a.total_slots THEN a
    ELSE flipchanger_load_data(a, f, sd)

\* bool flipchanger_save_slot_to_sd(app, slot_index): [app, files, result]
flipchanger_save_slot_to_sd(a, f, sd, slot_index) ==
    IF slot_index < 0 \/ slot_index >= a.total_slots
    THEN [app |-> a, files |-> f, result |-> FALSE]
    ELSE flipchanger_save_data(a, f, sd)

\* int32_t flipchanger_count_occupied_slots(app)
flipchanger_count_occupied_slots(a) ==
    Cardinality({i \in 0..(SLOT_CACHE_SIZE - 1) : i < a.total_slots /\ a.slots[i].occupied})

---------------------------------------------------------------------------
(* Changers registry (flipchanger.c 240-289, 305-436)                      *)

RECURSIVE ChangersText(_, _)
ChangersText(a, i) ==
    IF ~(i < a.changer_count) THEN <<>>
    ELSE (IF i > 0 THEN <<",">> ELSE <<>>)
         \o <<"{">>
         \o REG_ID \o write_json_string(a.changers[i].id)
         \o REG_NAME \o write_json_string(a.changers[i].name)
         \o REG_LOCATION \o write_json_string(a.changers[i].location)
         \o Snprintf(24, REG_SLOTS \o FormatLong(a.changers[i].total_slots) \o <<"}">>)
         \o ChangersText(a, i + 1)

RegistryText(a) ==
    Snprintf(96, REG_HEADER) \o write_json_string(a.current_changer_id)
    \o REG_CHANGERS \o ChangersText(a, 0) \o FOOTER

\* bool flipchanger_save_changers(app): the files after it
flipchanger_save_changers(a, f, sd) ==
    IF ~sd THEN f ELSE WriteFile(f, CHANGERS_STEM, RegistryText(a))

\* a changer object read with whatever total_slots it declares
ParseChangerUnchecked(json, p) ==
    [id |-> StringField(json, p, K_id, <<>>, CHANGER_ID_LEN),
     name |-> StringField(json, p, K_name, <<>>, CHANGER_NAME_LEN),
     location |-> StringField(json, p, K_location, <<>>, CHANGER_LOCATION_LEN),
     total_slots |-> IntField(json, p, K_total_slots, DEFAULT_SLOTS)]

\* one changer object at p, just after its '{' (lines 357-372)
ParseChanger(json, p) ==
    LET slots_k == find_json_key(json, p, K_total_slots)
        ts == IF slots_k = 0 THEN DEFAULT_SLOTS ELSE read_json_int(json, slots_k).value
    IN  [id |-> StringField(json, p, K_id, <<>>, CHANGER_ID_LEN),
         name |-> StringField(json, p, K_name, <<>>, CHANGER_NAME_LEN),
         location |-> StringField(json, p, K_location, <<>>, CHANGER_LOCATION_LEN),
         total_slots |-> IF slots_k # 0 /\ ts >= MIN_SLOTS /\ ts <= MAX_SLOTS
                         THEN ts ELSE DEFAULT_SLOTS]

\* the changers loop (lines 347-385): [changers, i, current_changer_index];
\* c is the changer parsed at p, kept when its id is not empty
RECURSIVE LoadChangersLoop(_, _, _, _, _, _)
LoadChangerAt(json, p, i, changers, index, current_id, c) ==
    LoadChangersLoop(json,
                     SkipIf(json, SkipIf(json, ScanTo(json, p + 1, {"}", "]"}), "}"), ","),
                     IF c.id # <<>> THEN i + 1 ELSE i,
                     [changers EXCEPT ![i] = c],
                     IF c.id # <<>> /\ c.id = current_id THEN i ELSE index,
                     current_id)

LoadChangersFrom(json, p, i, changers, index, current_id) ==
    IF At(json, p) = "]" THEN [changers |-> changers, i |-> i, index |-> index]
    ELSE IF At(json, p) # "{"
    THEN LoadChangersLoop(json, p + 1, i, changers, index, current_id)
    ELSE LoadChangerAt(json, p, i, changers, index, current_id, ParseChanger(json, p + 1))

LoadChangersLoop(json, from, i, changers, index, current_id) ==
    IF At(json, from) = NUL \/ ~(i < MAX_CHANGERS)
    THEN [changers |-> changers, i |-> i, index |-> index]
    ELSE LoadChangersFrom(json, skip_whitespace(json, from), i, changers, index, current_id)

\* the registry of the one changer "Default" that holds total_slots slots
\* (lines 267-276 and 2781-2788)
DefaultRegistry(a, total_slots) ==
    [a EXCEPT !.changers[0] = [id |-> Strncpy(CHANGER_0, CHANGER_ID_LEN),
                               name |-> Strncpy(DEFAULT_NAME, CHANGER_NAME_LEN),
                               location |-> <<>>,
                               total_slots |-> total_slots],
              !.changer_count = 1,
              !.current_changer_index = 0,
              !.current_changer_id = Strncpy(CHANGER_0, CHANGER_ID_LEN)]

\* the slot count the legacy file declares (lines 259-265)
LegacySlots(buf, k) ==
    IF k = 0 THEN DEFAULT_SLOTS
    ELSE IF read_json_int(buf, k).value < MIN_SLOTS \/ read_json_int(buf, k).value > MAX_SLOTS
    THEN DEFAULT_SLOTS
    ELSE read_json_int(buf, k).value

\* the copy of the legacy file and the registry written for it (lines 255-287)
MigrateBuffer(a1, f, sd, buf) ==
    [app |-> a1,
     files |-> flipchanger_save_changers(a1, WriteFile(f, CHANGER_0, buf), sd),
     result |-> TRUE]

\* static bool flipchanger_migrate_from_legacy(app): [app, files, result]
flipchanger_migrate_from_legacy(a, f, sd) ==
    IF ~CanOpenExisting(f, DATA_STEM, sd) THEN [app |-> a, files |-> f, result |-> FALSE]
    ELSE MigrateBuffer(
             DefaultRegistry(a, LegacySlots(
                 ReadBuffer(f, DATA_STEM, DATA_BUFFER_SIZE),
                 find_json_key(ReadBuffer(f, DATA_STEM, DATA_BUFFER_SIZE), 1, K_total_slots))),
             f, sd, ReadBuffer(f, DATA_STEM, DATA_BUFFER_SIZE))

\* lines 311-315: the registry is emptied before it is read
ClearedRegistry(a) ==
    [a EXCEPT !.changer_count = 0,
              !.current_changer_index = -1,
              !.current_changer_id = <<>>,
              !.changers = [i \in 0..(MAX_CHANGERS - 1) |-> ZeroChanger]]

\* lines 334-339: last_used_id, when the key is there and holds a string
WithLastUsed(a0, json, last_k) ==
    IF last_k # 0 /\ read_json_string(json, last_k, <<>>, CHANGER_ID_LEN).ok
    THEN [a0 EXCEPT !.current_changer_id =
                        Strncpy(read_json_string(json, last_k, <<>>, CHANGER_ID_LEN).buffer,
                                CHANGER_ID_LEN)]
    ELSE a0

\* the changers read with the first one made current by index alone:
\* current_changer_id stays what last_used_id set
WithChangersByIndex(a1, r) ==
    [a1 EXCEPT !.changers = r.changers,
               !.changer_count = r.i,
               !.current_changer_index = IF r.i > 0 /\ r.index < 0 THEN 0 ELSE r.index]

\* lines 386-392: the changers read, and the first one when last_used_id
\* names none of them
WithChangers(a1, r) ==
    IF r.i > 0 /\ r.index < 0
    THEN [a1 EXCEPT !.changers = r.changers,
                    !.changer_count = r.i,
                    !.current_changer_index = 0,
                    !.current_changer_id = Strncpy(r.changers[0].id, CHANGER_ID_LEN)]
    ELSE [a1 EXCEPT !.changers = r.changers,
                    !.changer_count = r.i,
                    !.current_changer_index = r.index]

\* lines 341-392: the "changers" array, whose '[' is looked for at p
LoadChangersArray(a1, json, changers_k, p) ==
    IF changers_k = 0 \/ At(json, p) # "[" THEN a1
    ELSE WithChangers(a1, LoadChangersLoop(json, p + 1, 0, a1.changers, -1,
                                           a1.current_changer_id))

\* lines 324-392: the registry read from the buffer json
LoadRegistry(a1, json, changers_k) ==
    LoadChangersArray(a1, json, changers_k,
                      IF changers_k = 0 THEN 0 ELSE skip_whitespace(json, changers_k))

\* bool flipchanger_load_changers(app): a record with the app and the files
flipchanger_load_changers(a, f, sd) ==
    IF ~CanOpenExisting(f, CHANGERS_STEM, sd)
    THEN flipchanger_migrate_from_legacy(ClearedRegistry(a), f, sd)
    ELSE [app |-> LoadRegistry(
                      WithLastUsed(ClearedRegistry(a),
                                   ReadBuffer(f, CHANGERS_STEM, CHANGERS_BUFFER_SIZE),
                                   find_json_key(ReadBuffer(f, CHANGERS_STEM,
                                                            CHANGERS_BUFFER_SIZE),
                                                 1, K_last_used_id)),
                      ReadBuffer(f, CHANGERS_STEM, CHANGERS_BUFFER_SIZE),
                      find_json_key(ReadBuffer(f, CHANGERS_STEM, CHANGERS_BUFFER_SIZE),
                                    1, K_changers)),
          files |-> f]

---------------------------------------------------------------------------
(* Application state and navigation (flipchanger.c 825-829, 1186-1270,     *)
(* 2756-2775)                                                              *)

CHANGER_FIELD_NAME == 0
CHANGER_FIELD_LOCATION == 1
CHANGER_FIELD_SLOTS == 2
CHANGER_FIELD_SAVE == 3
CHANGER_FIELD_DELETE == 4

\* the number of rows of the main menu and of a list page
MAIN_MENU_COUNT == 6
VISIBLE_COUNT == 5

\* first digit of CHAR_SET and the index after its last digit
CHAR_DIGIT_FIRST == 26
CHAR_DIGIT_END == 36

Keys == {"Up", "Down", "Left", "Right", "Ok", "Back"}

Ret(a, f) == [app |-> a, files |-> f]

\* the FlipChangerApp after malloc, memset and the assignments of lines 2763-2775
ZeroApp ==
    [changers |-> [i \in 0..(MAX_CHANGERS - 1) |-> ZeroChanger],
     changer_count |-> 0,
     current_changer_id |-> <<>>,
     current_changer_index |-> 0,
     slots |-> [i \in 0..(SLOT_CACHE_SIZE - 1) |->
                   [slot_number |-> 0, occupied |-> FALSE, cd |-> EmptyCD]],
     total_slots |-> 0,
     current_slot_index |-> 0,
     cache_start_index |-> 0,
     current_view |-> "VIEW_SPLASH",
     details_scroll_offset |-> 0,
     help_return_view |-> "VIEW_MAIN_MENU",
     selected_index |-> 0,
     scroll_offset |-> 0,
     running |-> TRUE,
     dirty |-> FALSE,
     editing_slot_count |-> FALSE,
     edit_slot_count_pos |-> 0,
     edit_changer |-> ZeroChanger,
     edit_changer_index |-> 0,
     edit_changer_field |-> CHANGER_FIELD_NAME,
     pending_changer_switch |-> FALSE,
     edit_field |-> "FIELD_ARTIST",
     edit_char_pos |-> 0,
     edit_char_selection |-> 0,
     edit_field_scroll |-> 0,
     edit_selected_track |-> 0,
     editing_track |-> FALSE,
     edit_track_field |-> "TRACK_FIELD_TITLE"]

flipchanger_show_main_menu(a) ==
    LET a1 == [a EXCEPT !.current_view = "VIEW_MAIN_MENU",
                        !.selected_index = 0,
                        !.scroll_offset = 0]
    IN  IF IndexValid(a1) THEN a1
        ELSE IF a1.changer_count > 0
        THEN [a1 EXCEPT !.current_changer_index = 0,
                        !.current_changer_id = Strncpy(a1.changers[0].id, CHANGER_ID_LEN)]
        ELSE [a1 EXCEPT !.current_changer_index = -1,
                        !.current_changer_id = <<>>]

flipchanger_show_changers(a) ==
    [a EXCEPT !.current_view = "VIEW_CHANGERS",
              !.scroll_offset = 0,
              !.selected_index = IF a.changer_count > 0 /\ IndexValid(a)
                                 THEN a.current_changer_index ELSE 0]

flipchanger_show_add_edit_changer(a, index) ==
    [a EXCEPT !.current_view = "VIEW_ADD_EDIT_CHANGER",
              !.edit_changer_index = index,
              !.edit_changer_field = CHANGER_FIELD_NAME,
              !.edit_char_pos = 0,
              !.edit_char_selection = 0,
              !.edit_changer = IF index >= 0 /\ index < a.changer_count
                               THEN a.changers[index]
                               ELSE [ZeroChanger EXCEPT !.total_slots = DEFAULT_SLOTS]]

flipchanger_show_slot_list(a) ==
    [a EXCEPT !.current_view = "VIEW_SLOT_LIST",
              !.selected_index = 0,
              !.scroll_offset = 0]

flipchanger_show_slot_details(a, slot_index) ==
    [a EXCEPT !.current_view = "VIEW_SLOT_DETAILS",
              !.current_slot_index = slot_index,
              !.details_scroll_offset = 0]

\* lines 1243-1251: the form opened on its first field
FormOpened(a, slot_index) ==
    [a EXCEPT !.current_view = "VIEW_ADD_EDIT_CD",
              !.current_slot_index = slot_index,
              !.edit_field = "FIELD_ARTIST",
              !.edit_char_pos = 0,
              !.edit_char_selection = 0,
              !.edit_field_scroll = 0,
              !.edit_selected_track = 0,
              !.editing_track = FALSE,
              !.edit_track_field = "TRACK_FIELD_TITLE"]

\* lines 1255-1269: a new CD starts from an empty, occupied slot; u is
\* [app, files] after flipchanger_update_cache
NewSlotIfAsked(u, slot_index, is_new) ==
    IF flipchanger_get_slot(u.app, slot_index) # -1 /\ is_new
    THEN Ret([u.app EXCEPT !.slots[flipchanger_get_slot(u.app, slot_index)] =
                               [slot_number |-> slot_index + 1,
                                occupied |-> TRUE,
                                cd |-> EmptyCD]],
             u.files)
    ELSE Ret(u.app, u.files)

\* [app, files]
flipchanger_show_add_edit(a, f, sd, slot_index, is_new) ==
    NewSlotIfAsked(flipchanger_update_cache(FormOpened(a, slot_index), f, sd, slot_index),
                   slot_index, is_new)

---------------------------------------------------------------------------
(* flipchanger_input_callback, one operator per view (flipchanger.c        *)
(* 1702-2749).  Each gives [app, files] after a short or long press of key *)

\* case VIEW_MAIN_MENU (lines 1724-1766)
MainMenuInput(a, f, key) ==
    IF key = "Up"
    THEN LET sel == (a.selected_index + MAIN_MENU_COUNT - 1) % MAIN_MENU_COUNT
         IN  Ret([a EXCEPT !.selected_index = sel,
                           !.scroll_offset = IF sel < a.scroll_offset THEN sel
                                             ELSE a.scroll_offset], f)
    ELSE IF key = "Down"
    THEN LET sel == (a.selected_index + 1) % MAIN_MENU_COUNT
         IN  Ret([a EXCEPT !.selected_index = sel,
                           !.scroll_offset = IF sel >= a.scroll_offset + VISIBLE_COUNT
                                             THEN sel - VISIBLE_COUNT + 1
                                             ELSE a.scroll_offset], f)
    ELSE IF key = "Ok"
    THEN LET sel == ((a.selected_index % MAIN_MENU_COUNT) + MAIN_MENU_COUNT) % MAIN_MENU_COUNT
         IN  CASE sel \in {0, 1} -> Ret(flipchanger_show_slot_list(a), f)
               [] sel = 2 -> Ret([a EXCEPT !.current_view = "VIEW_SETTINGS",
                                           !.selected_index = 0,
                                           !.editing_slot_count = FALSE,
                                           !.edit_slot_count_pos = 0], f)
               [] sel = 3 -> Ret([a EXCEPT !.current_view = "VIEW_STATISTICS",
                                           !.selected_index = 0], f)
               [] sel = 4 -> Ret(flipchanger_show_changers(a), f)
               [] OTHER   -> Ret([a EXCEPT !.help_return_view = "VIEW_MAIN_MENU",
                                           !.current_view = "VIEW_HELP"], f)
    ELSE IF key = "Back"
    THEN Ret([a EXCEPT !.running = FALSE], f)
    ELSE Ret(a, f)

\* the scroll adjustment shared by the Up and Down branches of the changer
\* list (lines 1778-1779, 1783-1784)
ScrollToSelected(a, sel) ==
    IF sel >= a.scroll_offset + 5 THEN sel - 4
    ELSE IF sel < a.scroll_offset THEN sel
    ELSE a.scroll_offset

\* case VIEW_CHANGERS (lines 1767-1804)
ChangersInput(a, f, key, is_long_press) ==
    LET show_add == a.changer_count < MAX_CHANGERS
        total_rows == a.changer_count + (IF show_add THEN 1 ELSE 0)
        is_add_row == show_add /\ a.selected_index = a.changer_count
    IN  IF key = "Right"
        THEN Ret([a EXCEPT !.help_return_view = "VIEW_CHANGERS",
                           !.current_view = "VIEW_HELP"], f)
        ELSE IF key = "Up" /\ total_rows > 0
        THEN LET sel == IF a.selected_index - 1 < 0 THEN total_rows - 1
                        ELSE a.selected_index - 1
             IN  Ret([a EXCEPT !.selected_index = sel,
                               !.scroll_offset = ScrollToSelected(a, sel)], f)
        ELSE IF key = "Down" /\ total_rows > 0
        THEN LET sel == IF a.selected_index + 1 >= total_rows THEN 0
                        ELSE a.selected_index + 1
             IN  Ret([a EXCEPT !.selected_index = sel,
                               !.scroll_offset = ScrollToSelected(a, sel)], f)
        ELSE IF key = "Ok"
        THEN IF is_add_row THEN Ret(flipchanger_show_add_edit_changer(a, -1), f)
             ELSE IF is_long_press /\ a.selected_index < a.changer_count
             THEN Ret(flipchanger_show_add_edit_changer(a, a.selected_index), f)
             ELSE IF a.selected_index >= 0 /\ a.selected_index < a.changer_count
             THEN Ret(flipchanger_show_main_menu(
                          [a EXCEPT !.current_changer_index = a.selected_index,
                                    !.current_changer_id =
                                        Strncpy(a.changers[a.selected_index].id, CHANGER_ID_LEN),
                                    !.total_slots = a.changers[a.selected_index].total_slots,
                                    !.pending_changer_switch = TRUE,
                                    !.scroll_offset = 0]), f)
             ELSE Ret(a, f)
        ELSE IF key = "Back"
        THEN Ret(flipchanger_show_main_menu([a EXCEPT !.scroll_offset = 0]), f)
        ELSE Ret(a, f)

\* the shifting loop of the delete (lines 1921-1923)
RemoveChanger(changers, index, count) ==
    [i \in 0..(MAX_CHANGERS - 1) |->
        IF i >= index /\ i < count - 1 THEN changers[i + 1] ELSE changers[i]]

\* lines 1932-1933: the slots of the current changer are read and the list shown
ChangersReloaded(a3, f1, sd) ==
    Ret(flipchanger_show_changers(flipchanger_load_data(a3, f1, sd)), f1)

\* case VIEW_CONFIRM_DELETE_CHANGER (lines 1919-1937)
ConfirmDeleteChangerInput(a, f, sd, key) ==
    IF key = "Ok" /\ a.edit_changer_index >= 0 /\ a.changer_count > 1
    THEN LET a1 == [a EXCEPT !.changers = RemoveChanger(a.changers, a.edit_changer_index,
                                                        a.changer_count),
                             !.changer_count = a.changer_count - 1]
             a2 == IF a1.current_changer_index >= a1.changer_count
                   THEN [a1 EXCEPT !.current_changer_index = a1.changer_count - 1]
                   ELSE a1
             a3 == IF a2.current_changer_index >= 0
                   THEN [a2 EXCEPT !.current_changer_id =
                                       Strncpy(a2.changers[a2.current_changer_index].id,
                                               CHANGER_ID_LEN),
                                   !.total_slots =
                                       a2.changers[a2.current_changer_index].total_slots]
                   ELSE a2
         IN  ChangersReloaded(a3, flipchanger_save_changers(a3, f, sd), sd)
    ELSE IF key = "Back"
    THEN Ret([a EXCEPT !.current_view = "VIEW_ADD_EDIT_CHANGER"], f)
    ELSE Ret(a, f)

\* case VIEW_HELP (lines 1938-1942)
HelpInput(a, f, key) ==
    IF key = "Back" \/ key = "Ok"
    THEN Ret([a EXCEPT !.current_view = a.help_return_view], f)
    ELSE Ret(a, f)

\* line 1992, u being [app, files] after flipchanger_update_cache
DetailsOfSelected(u) ==
    Ret(flipchanger_show_slot_details(u.app, u.app.selected_index), u.files)

\* case VIEW_SLOT_LIST (lines 1944-1996)
SlotListInput(a, f, sd, key, is_long_press) ==
    IF key = "Right"
    THEN Ret([a EXCEPT !.help_return_view = "VIEW_SLOT_LIST",
                       !.current_view = "VIEW_HELP"], f)
    ELSE IF key = "Up"
    THEN LET sel == IF is_long_press
                    THEN (IF a.selected_index - 10 < 0 THEN a.total_slots - 1
                          ELSE a.selected_index - 10)
                    ELSE (IF a.selected_index <= 0 THEN a.total_slots - 1
                          ELSE a.selected_index - 1)
         IN  Ret([a EXCEPT !.selected_index = sel,
                           !.scroll_offset = IF sel < a.scroll_offset THEN sel
                                             ELSE IF sel >= a.scroll_offset + 5 THEN sel - 4
                                             ELSE a.scroll_offset], f)
    ELSE IF key = "Down"
    THEN LET sel == IF is_long_press
                    THEN (IF a.selected_index + 10 >= a.total_slots THEN 0
                          ELSE a.selected_index + 10)
                    ELSE (IF a.selected_index >= a.total_slots - 1 THEN 0
                          ELSE a.selected_index + 1)
         IN  Ret([a EXCEPT !.selected_index = sel,
                           !.scroll_offset = ScrollToSelected(a, sel)], f)
    ELSE IF key = "Ok"
    THEN DetailsOfSelected(flipchanger_update_cache(a, f, sd, a.selected_index))
    ELSE IF key = "Back"
    THEN Ret(flipchanger_show_main_menu(a), f)
    ELSE Ret(a, f)

\* case VIEW_SLOT_DETAILS (lines 1998-2013)
SlotDetailsInput(a, f, sd, key) ==
    LET slot == flipchanger_get_slot(a, a.current_slot_index)
    IN  IF key = "Right"
        THEN Ret([a EXCEPT !.help_return_view = "VIEW_SLOT_DETAILS",
                           !.current_view = "VIEW_HELP"], f)
        ELSE IF key = "Ok"
        THEN flipchanger_show_add_edit(a, f, sd, a.current_slot_index,
                                       slot = -1 \/ ~a.slots[Max(slot, 0)].occupied)
        ELSE IF key = "Back"
        THEN Ret(flipchanger_show_slot_list(a), f)
        ELSE Ret(a, f)

\* the end of the long press on Back after flipchanger_save_data gave s
SettingsSaved(s, sd) ==
    Ret(flipchanger_show_main_menu([s.app EXCEPT !.dirty = FALSE,
                                                 !.editing_slot_count = FALSE]),
        flipchanger_save_changers(s.app, s.files, sd))

\* case VIEW_SETTINGS (lines 2674-2724)
SettingsInput(a, f, sd, key, is_long_press) ==
    LET Store(total) ==
            [a EXCEPT !.total_slots = total,
                      !.changers = IF IndexValid(a)
                                   THEN [a.changers EXCEPT
                                         ![a.current_changer_index].total_slots = total]
                                   ELSE a.changers,
                      !.dirty = TRUE]
    IN  IF a.editing_slot_count
        THEN IF key = "Up" THEN Ret(Store(Min(a.total_slots + 1, MAX_SLOTS)), f)
             ELSE IF key = "Down" THEN Ret(Store(Max(a.total_slots - 1, MIN_SLOTS)), f)
             ELSE IF key = "Back"
             THEN IF is_long_press
                  THEN IF a.dirty
                       THEN SettingsSaved(flipchanger_save_data(
                                              flipchanger_init_slots(a, a.total_slots), f, sd),
                                          sd)
                       ELSE Ret(flipchanger_show_main_menu(
                                    [a EXCEPT !.editing_slot_count = FALSE]), f)
                  ELSE Ret([a EXCEPT !.editing_slot_count = FALSE], f)
             ELSE Ret(a, f)
        ELSE IF key = "Right"
        THEN Ret([a EXCEPT !.help_return_view = "VIEW_SETTINGS",
                           !.current_view = "VIEW_HELP"], f)
        ELSE IF key = "Ok"
        THEN Ret([a EXCEPT !.editing_slot_count = TRUE, !.edit_slot_count_pos = 0], f)
        ELSE IF key = "Back"
        THEN IF is_long_press THEN Ret([a EXCEPT !.running = FALSE], f)
             ELSE Ret(flipchanger_show_main_menu(a), f)
        ELSE Ret(a, f)

\* case VIEW_STATISTICS (lines 2726-2739)
StatisticsInput(a, f, key, is_long_press) ==
    IF key = "Right"
    THEN Ret([a EXCEPT !.help_return_view = "VIEW_STATISTICS",
                       !.current_view = "VIEW_HELP"], f)
    ELSE IF key = "Back"
    THEN IF is_long_press THEN Ret([a EXCEPT !.running = FALSE], f)
         ELSE Ret(flipchanger_show_main_menu(a), f)
    ELSE Ret(a, f)

---------------------------------------------------------------------------
(* Text entry shared by the forms.  pos is the 0-based cursor; a memmove   *)
(* whose length would be negative is undefined and is modelled as leaving  *)
(* the text alone (the specifications below never press a key there).      *)

RemoveAt(field, pos) ==
    SubSeq(field, 1, pos) \o SubSeq(field, pos + 2, Len(field))

InsertAt(field, pos, ch) ==
    SubSeq(field, 1, pos) \o <<ch>> \o SubSeq(field, pos + 1, Len(field))

\* the DEL branch of the changer form (lines 1899-1906): [field, pos]
ChangerDeleteChar(field, pos) ==
    IF pos < Len(field) THEN [field |-> RemoveAt(field, pos), pos |-> pos]
    ELSE IF pos > 0
    THEN [field |-> IF pos - 1 < Len(field) THEN RemoveAt(field, pos - 1) ELSE field,
          pos |-> pos - 1]
    ELSE [field |-> field, pos |-> pos]

\* the insert branch of the changer form (lines 1907-1914): [field, pos]
ChangerInsertChar(field, pos, selection, max_len) ==
    IF Len(field) < max_len /\ pos <= Len(field)
    THEN [field |-> InsertAt(field, pos, CHAR_SET[selection + 1]), pos |-> pos + 1]
    ELSE [field |-> field, pos |-> pos]

\* the document written for a new changer (lines 1829-1838)
NewChangerText(total_slots) ==
    Snprintf(80, DATA_HEADER_A \o FormatLong(total_slots) \o DATA_HEADER_B \o FOOTER)

\* flipchanger_save_changers(app); flipchanger_show_changers(app) (lines 1840-1841)
ChangersSaved(a1, f, sd) ==
    Ret(flipchanger_show_changers(a1), flipchanger_save_changers(a1, f, sd))

\* case VIEW_ADD_EDIT_CHANGER (lines 1805-1918)
AddEditChangerInput(a, f, sd, key) ==
    LET has_delete == a.edit_changer_index >= 0 /\ a.changer_count > 1
        max_field == IF has_delete THEN CHANGER_FIELD_DELETE ELSE CHANGER_FIELD_SAVE
        char_set_len == Len(CHAR_SET)
        max_sel == char_set_len
        in_name == a.edit_changer_field = CHANGER_FIELD_NAME
        field == IF in_name THEN a.edit_changer.name ELSE a.edit_changer.location
        max_len == IF in_name THEN CHANGER_NAME_LEN - 1 ELSE CHANGER_LOCATION_LEN - 1
        SetField(r) == IF in_name
                       THEN [a EXCEPT !.edit_changer.name = r.field, !.edit_char_pos = r.pos]
                       ELSE [a EXCEPT !.edit_changer.location = r.field, !.edit_char_pos = r.pos]
    IN  IF key = "Back" THEN Ret(flipchanger_show_changers(a), f)
        ELSE IF a.edit_changer_field = CHANGER_FIELD_SAVE
        THEN IF key = "Ok" /\ a.edit_changer.name # <<>>
             THEN IF a.edit_changer_index >= 0
                  THEN LET a1 == [a EXCEPT !.changers[a.edit_changer_index] = a.edit_changer,
                                           !.total_slots =
                                               IF a.current_changer_index = a.edit_changer_index
                                               THEN a.edit_changer.total_slots
                                               ELSE a.total_slots]
                       IN  ChangersSaved(a1, f, sd)
                  ELSE LET id == Snprintf(CHANGER_ID_LEN,
                                          CHANGER_PREFIX \o FormatLong(a.changer_count))
                           created == [a.edit_changer EXCEPT
                                          !.id = Strncpy(id, CHANGER_ID_LEN),
                                          !.total_slots = Min(Max(a.edit_changer.total_slots,
                                                                  MIN_SLOTS), MAX_SLOTS)]
                           a1 == [a EXCEPT !.edit_changer = created,
                                           !.changers[a.changer_count] = created,
                                           !.changer_count = a.changer_count + 1]
                           f1 == IF sd THEN WriteFile(f, created.id,
                                                      NewChangerText(created.total_slots))
                                 ELSE f
                       IN  ChangersSaved(a1, f1, sd)
             ELSE IF key = "Up"
             THEN Ret([a EXCEPT !.edit_changer_field =
                                    IF has_delete THEN CHANGER_FIELD_DELETE
                                    ELSE CHANGER_FIELD_SLOTS], f)
             ELSE IF key = "Down"
             THEN Ret([a EXCEPT !.edit_changer_field = CHANGER_FIELD_NAME], f)
             ELSE Ret(a, f)
        ELSE IF a.edit_changer_field = CHANGER_FIELD_DELETE
        THEN IF key = "Ok" THEN Ret([a EXCEPT !.current_view = "VIEW_CONFIRM_DELETE_CHANGER"], f)
             ELSE IF key = "Up" THEN Ret([a EXCEPT !.edit_changer_field = CHANGER_FIELD_SLOTS], f)
             ELSE IF key = "Down" THEN Ret([a EXCEPT !.edit_changer_field = CHANGER_FIELD_SAVE], f)
             ELSE Ret(a, f)
        ELSE IF a.edit_changer_field = CHANGER_FIELD_SLOTS
        THEN IF key = "Up"
             THEN Ret([a EXCEPT !.edit_changer.total_slots =
                                    Min(a.edit_changer.total_slots + 1, MAX_SLOTS)], f)
             ELSE IF key = "Down"
             THEN Ret([a EXCEPT !.edit_changer.total_slots =
                                    Max(a.edit_changer.total_slots - 1, MIN_SLOTS)], f)
             ELSE IF key = "Ok"
             THEN Ret([a EXCEPT !.edit_changer_field = max_field], f)
             ELSE Ret(a, f)
        ELSE IF a.edit_changer_field = CHANGER_FIELD_NAME
                \/ a.edit_changer_field = CHANGER_FIELD_LOCATION
        THEN IF key = "Up"
             THEN Ret([a EXCEPT !.edit_char_selection =
                                    IF a.edit_char_selection - 1 < 0 THEN max_sel
                                    ELSE a.edit_char_selection - 1], f)
             ELSE IF key = "Down"
             THEN Ret([a EXCEPT !.edit_char_selection =
                                    IF a.edit_char_selection + 1 > max_sel THEN 0
                                    ELSE a.edit_char_selection + 1], f)
             ELSE IF key = "Left"
             THEN IF a.edit_char_pos > 0
                  THEN Ret([a EXCEPT !.edit_char_pos = a.edit_char_pos - 1], f)
                  ELSE IF a.edit_changer_field = CHANGER_FIELD_LOCATION
                  THEN Ret([a EXCEPT !.edit_changer_field = CHANGER_FIELD_NAME,
                                     !.edit_char_pos = Len(a.edit_changer.name),
                                     !.edit_char_selection = 0], f)
                  ELSE Ret([a EXCEPT !.edit_changer_field = max_field], f)
             ELSE IF key = "Right"
             THEN IF a.edit_char_pos < Len(field) /\ a.edit_char_pos < max_len - 1
                  THEN Ret([a EXCEPT !.edit_char_pos = a.edit_char_pos + 1], f)
                  ELSE IF a.edit_char_pos = Len(field)
                  THEN IF in_name
                       THEN Ret([a EXCEPT !.edit_changer_field = CHANGER_FIELD_LOCATION,
                                          !.edit_char_pos = 0,
                                          !.edit_char_selection = 0], f)
                       ELSE Ret([a EXCEPT !.edit_changer_field = CHANGER_FIELD_SLOTS], f)
                  ELSE Ret(a, f)
             ELSE IF key = "Ok"
             THEN IF a.edit_char_selection >= CHAR_DEL_INDEX
                  THEN Ret(SetField(ChangerDeleteChar(field, a.edit_char_pos)), f)
                  ELSE IF a.edit_char_selection < char_set_len /\ a.edit_char_pos < max_len - 1
                  THEN Ret(SetField(ChangerInsertChar(field, a.edit_char_pos,
                                                      a.edit_char_selection, max_len)), f)
                  ELSE Ret(a, f)
             ELSE Ret(a, f)
        ELSE Ret(a, f)

---------------------------------------------------------------------------
(* case VIEW_ADD_EDIT_CD (flipchanger.c 2015-2371)                         *)

TextFields == {"FIELD_ARTIST", "FIELD_ALBUM_ARTIST", "FIELD_ALBUM", "FIELD_GENRE",
               "FIELD_NOTES"}

\* the switch that picks field and max_len (lines 2231-2254, 2282-2305)
FieldText(cd, edit_field) ==
    CASE edit_field = "FIELD_ARTIST" -> cd.artist
      [] edit_field = "FIELD_ALBUM_ARTIST" -> cd.album_artist
      [] edit_field = "FIELD_ALBUM" -> cd.album
      [] edit_field = "FIELD_GENRE" -> cd.genre
      [] OTHER -> cd.notes

FieldMaxLen(edit_field) ==
    CASE edit_field = "FIELD_ARTIST" -> MAX_ARTIST_LENGTH
      [] edit_field = "FIELD_ALBUM_ARTIST" -> MAX_ARTIST_LENGTH
      [] edit_field = "FIELD_ALBUM" -> MAX_ALBUM_LENGTH
      [] edit_field = "FIELD_GENRE" -> MAX_GENRE_LENGTH
      [] OTHER -> MAX_NOTES_LENGTH

WithFieldText(cd, edit_field, text) ==
    CASE edit_field = "FIELD_ARTIST" -> [cd EXCEPT !.artist = text]
      [] edit_field = "FIELD_ALBUM_ARTIST" -> [cd EXCEPT !.album_artist = text]
      [] edit_field = "FIELD_ALBUM" -> [cd EXCEPT !.album = text]
      [] edit_field = "FIELD_GENRE" -> [cd EXCEPT !.genre = text]
      [] OTHER -> [cd EXCEPT !.notes = text]

\* the DEL branch (lines 2309-2323, 2511-2523): [field, pos]
DeleteChar(field, pos) ==
    IF pos < Len(field) /\ pos >= 0 THEN [field |-> RemoveAt(field, pos), pos |-> pos]
    ELSE IF pos > 0 /\ Len(field) > 0
    THEN [field |-> IF pos - 1 < Len(field) THEN RemoveAt(field, pos - 1) ELSE field,
          pos |-> pos - 1]
    ELSE [field |-> field, pos |-> pos]

\* the insert branch (lines 2324-2353, 2525-2546): [field, pos]
InsertChar(field, pos, selection, max_len) ==
    LET len == Len(field)
        at == IF pos > len THEN len ELSE pos
    IN  IF selection < Len(CHAR_SET) /\ at <= len /\ len < max_len - 1
        THEN [field |-> IF len < max_len - 2 THEN InsertAt(field, at, CHAR_SET[selection + 1])
                        ELSE IF at = len THEN Append(field, CHAR_SET[selection + 1])
                        ELSE [field EXCEPT ![at + 1] = CHAR_SET[selection + 1]],
              pos |-> IF at < max_len - 2 THEN at + 1 ELSE at]
        ELSE [field |-> field, pos |-> at]

PreviousField(edit_field) ==
    CASE edit_field = "FIELD_ARTIST" -> "FIELD_NOTES"
      [] edit_field = "FIELD_ALBUM_ARTIST" -> "FIELD_ARTIST"
      [] edit_field = "FIELD_ALBUM" -> "FIELD_ALBUM_ARTIST"
      [] edit_field = "FIELD_GENRE" -> "FIELD_ALBUM"
      [] edit_field = "FIELD_NOTES" -> "FIELD_GENRE"
      [] OTHER -> edit_field

NextField(edit_field) ==
    CASE edit_field = "FIELD_ARTIST" -> "FIELD_ALBUM_ARTIST"
      [] edit_field = "FIELD_ALBUM_ARTIST" -> "FIELD_ALBUM"
      [] edit_field = "FIELD_ALBUM" -> "FIELD_DISC_NUMBER"
      [] edit_field = "FIELD_GENRE" -> "FIELD_NOTES"
      [] edit_field = "FIELD_NOTES" -> "FIELD_TRACKS"
      [] OTHER -> edit_field

\* the FIELD_DISC_NUMBER and FIELD_YEAR branches (lines 2084-2165); limit is
\* the cap of the number, up and down the neighbouring fields
NumberFieldInput(a0, f, key, is_long_press, slot, is_year) ==
    LET a == IF a0.edit_char_selection < CHAR_DIGIT_FIRST
                \/ a0.edit_char_selection >= CHAR_DIGIT_END
             THEN [a0 EXCEPT !.edit_char_selection = CHAR_DIGIT_FIRST] ELSE a0
        value == IF is_year THEN a.slots[slot].cd.year ELSE a.slots[slot].cd.disc_number
        limit == IF is_year THEN 9999 ELSE 999
        Store(v) == IF is_year THEN [a EXCEPT !.slots[slot].cd.year = v, !.dirty = TRUE]
                    ELSE [a EXCEPT !.slots[slot].cd.disc_number = v, !.dirty = TRUE]
    IN  IF key = "Up"
        THEN IF a.edit_char_selection = CHAR_DIGIT_FIRST
             THEN Ret([a EXCEPT !.edit_field = IF is_year THEN "FIELD_DISC_NUMBER"
                                               ELSE "FIELD_ALBUM",
                                !.edit_char_pos = 0,
                                !.edit_char_selection = IF is_year THEN CHAR_DIGIT_FIRST ELSE 0,
                                !.edit_field_scroll = 0], f)
             ELSE Ret([a EXCEPT !.edit_char_selection = a.edit_char_selection - 1], f)
        ELSE IF key = "Down"
        THEN IF a.edit_char_selection = CHAR_DIGIT_FIRST
             THEN Ret([a EXCEPT !.edit_field = IF is_year THEN "FIELD_GENRE" ELSE "FIELD_YEAR",
                                !.edit_char_pos = 0,
                                !.edit_char_selection = IF is_year THEN 0 ELSE CHAR_DIGIT_FIRST,
                                !.edit_field_scroll = 0], f)
             ELSE Ret([a EXCEPT !.edit_char_selection =
                                    IF a.edit_char_selection < CHAR_DIGIT_END - 1
                                    THEN a.edit_char_selection + 1
                                    ELSE CHAR_DIGIT_FIRST], f)
        ELSE IF key = "Ok"
        THEN Ret(Store(Min(Accumulate(value, a.edit_char_selection - CHAR_DIGIT_FIRST),
                           limit)), f)
        ELSE IF key = "Back"
        THEN IF is_long_press THEN Ret(flipchanger_show_slot_details(a, a.current_slot_index), f)
             ELSE Ret(Store(value \div 10), f)
        ELSE Ret(a, f)

\* the branch of the text fields (lines 2166-2364)
TextFieldInput(a, f, key, slot) ==
    LET cd == a.slots[slot].cd
        field == FieldText(cd, a.edit_field)
        max_len == FieldMaxLen(a.edit_field)
        at_rest == a.edit_char_pos = 0 /\ a.edit_char_selection = 0
        SetField(r) == [a EXCEPT !.slots[slot].cd = WithFieldText(cd, a.edit_field, r.field),
                                 !.edit_char_pos = r.pos]
    IN  IF key = "Up"
        THEN IF at_rest
             THEN Ret([a EXCEPT !.edit_field = PreviousField(a.edit_field),
                                !.edit_field_scroll = 0], f)
             ELSE Ret([a EXCEPT !.edit_char_selection =
                                    IF a.edit_char_selection > 0 THEN a.edit_char_selection - 1
                                    ELSE CHAR_DEL_INDEX], f)
        ELSE IF key = "Down"
        THEN IF at_rest
             THEN Ret([a EXCEPT !.edit_field = NextField(a.edit_field),
                                !.edit_field_scroll = 0], f)
             ELSE Ret([a EXCEPT !.edit_char_selection =
                                    IF a.edit_char_selection < CHAR_DEL_INDEX
                                    THEN a.edit_char_selection + 1 ELSE 0], f)
        ELSE IF key = "Left"
        THEN Ret([a EXCEPT !.edit_char_pos = IF a.edit_char_pos > 0 THEN a.edit_char_pos - 1
                                             ELSE a.edit_char_pos], f)
        ELSE IF key = "Right"
        THEN Ret([a EXCEPT !.edit_char_pos =
                               IF a.edit_char_pos < Len(field) /\ a.edit_char_pos < max_len - 1
                               THEN a.edit_char_pos + 1 ELSE a.edit_char_pos], f)
        ELSE IF key = "Ok"
        THEN IF a.edit_char_selection >= CHAR_DEL_INDEX
             THEN Ret(SetField(DeleteChar(field, a.edit_char_pos)), f)
             ELSE IF a.edit_char_pos >= 0 /\ a.edit_char_pos < max_len - 1
             THEN Ret(SetField(InsertChar(field, a.edit_char_pos, a.edit_char_selection,
                                          max_len)), f)
             ELSE Ret(a, f)
        ELSE IF key = "Back"
        THEN Ret(flipchanger_show_slot_details(a, a.current_slot_index), f)
        ELSE Ret(a, f)

\* the end of Save, s being what flipchanger_save_slot_to_sd gave
DetailsOfCurrent(s) ==
    Ret(flipchanger_show_slot_details(s.app, s.app.current_slot_index), s.files)

AddEditCDInput(a0, f, sd, key, is_long_press) ==
    LET slot == flipchanger_get_slot(a0, a0.current_slot_index)
        a == [a0 EXCEPT !.edit_char_pos = Max(a0.edit_char_pos, 0),
                        !.edit_char_selection = Max(a0.edit_char_selection, 0)]
    IN  IF slot = -1
        THEN Ret(IF key = "Back" THEN [a0 EXCEPT !.current_view = "VIEW_SLOT_LIST"] ELSE a0, f)
        ELSE IF a.edit_field = "FIELD_SAVE"
        THEN IF key = "Ok"
             THEN DetailsOfCurrent(flipchanger_save_slot_to_sd(
                                       [a EXCEPT !.slots[slot].occupied = TRUE,
                                                 !.dirty = TRUE],
                                       f, sd, a.current_slot_index))
             ELSE IF key = "Up"
             THEN Ret([a EXCEPT !.edit_field = "FIELD_TRACKS", !.edit_field_scroll = 0], f)
             ELSE IF key = "Down"
             THEN Ret([a EXCEPT !.edit_field = "FIELD_ARTIST", !.edit_field_scroll = 0], f)
             ELSE IF key = "Back"
             THEN Ret(flipchanger_show_slot_details(a, a.current_slot_index), f)
             ELSE Ret(a, f)
        ELSE IF a.edit_field = "FIELD_TRACKS"
        THEN IF key = "Ok"
             THEN Ret([a EXCEPT !.current_view = "VIEW_TRACK_MANAGEMENT",
                                !.edit_selected_track = 0,
                                !.editing_track = FALSE], f)
             ELSE IF key = "Up"
             THEN Ret([a EXCEPT !.edit_field = "FIELD_NOTES", !.edit_field_scroll = 0], f)
             ELSE IF key = "Down"
             THEN Ret([a EXCEPT !.edit_field = "FIELD_SAVE", !.edit_field_scroll = 0], f)
             ELSE IF key = "Back"
             THEN Ret(flipchanger_show_slot_details(a, a.current_slot_index), f)
             ELSE Ret(a, f)
        ELSE IF a.edit_field = "FIELD_DISC_NUMBER"
        THEN NumberFieldInput(a, f, key, is_long_press, slot, FALSE)
        ELSE IF a.edit_field = "FIELD_YEAR"
        THEN NumberFieldInput(a, f, key, is_long_press, slot, TRUE)
        ELSE TextFieldInput(a, f, key, slot)

---------------------------------------------------------------------------
(* case VIEW_TRACK_MANAGEMENT (flipchanger.c 2373-2672)                    *)

\* snprintf(track->duration, sizeof(track->duration), "%ld", seconds)
DurationText(seconds) == Snprintf(TRACK_DURATION_SIZE, FormatLong(seconds))

\* add a track (lines 2616-2633)
AddTrack(a, slot) ==
    LET cd == a.slots[slot].cd
    IN  IF cd.track_count >= 0 /\ cd.track_count < MAX_TRACKS
        THEN [a EXCEPT !.slots[slot].cd.tracks =
                           Append(cd.tracks, EmptyTrack(cd.track_count + 1)),
                       !.slots[slot].cd.track_count = Min(cd.track_count + 1, MAX_TRACKS),
                       !.edit_selected_track = Max(Min(cd.track_count + 1, MAX_TRACKS) - 1, 0),
                       !.dirty = TRUE]
        ELSE a

\* delete the selected track (lines 2634-2654)
DeleteTrack(a, slot) ==
    LET cd == a.slots[slot].cd
        sel == a.edit_selected_track
        count == Max(cd.track_count - 1, 0)
        after == IF sel >= count /\ sel > 0 THEN sel - 1 ELSE sel
    IN  IF cd.track_count > 0 /\ sel >= 0 /\ sel < cd.track_count /\ sel < MAX_TRACKS
        THEN [a EXCEPT !.slots[slot].cd.tracks =
                           [i \in 1..count |->
                               IF i - 1 >= sel
                               THEN [cd.tracks[i + 1] EXCEPT !.number = i]
                               ELSE cd.tracks[i]],
                       !.slots[slot].cd.track_count = count,
                       !.edit_selected_track = Max(after, 0),
                       !.dirty = TRUE]
        ELSE a

\* a key while a track's title or duration is edited (lines 2408-2597)
TrackEditInput(a0, f, key, is_long_press, slot) ==
    LET a == [a0 EXCEPT !.edit_char_pos = Max(a0.edit_char_pos, 0),
                        !.edit_char_selection = Max(a0.edit_char_selection, 0)]
        t == a.edit_selected_track + 1
        track == a.slots[slot].cd.tracks[t]
        in_title == a.edit_track_field = "TRACK_FIELD_TITLE"
        field == IF in_title THEN track.title ELSE track.duration
        max_len == IF in_title THEN MAX_TRACK_TITLE_LENGTH ELSE TRACK_DURATION_SIZE
        current_seconds == IF Len(track.duration) > 0 THEN Atoi(track.duration) ELSE 0
        SetTitle(r) == [a EXCEPT !.slots[slot].cd.tracks[t].title = r.field,
                                 !.edit_char_pos = r.pos,
                                 !.dirty = TRUE]
        SetField(r) == IF in_title THEN SetTitle(r)
                       ELSE [a EXCEPT !.slots[slot].cd.tracks[t].duration = r.field,
                                      !.edit_char_pos = r.pos,
                                      !.dirty = TRUE]
        SetDuration(text) == [a EXCEPT !.slots[slot].cd.tracks[t].duration = text,
                                       !.dirty = TRUE]
    IN  IF key = "Up"
        THEN Ret([a EXCEPT !.edit_char_selection =
                               IF a.edit_char_selection > 0 THEN a.edit_char_selection - 1
                               ELSE CHAR_DEL_INDEX], f)
        ELSE IF key = "Down"
        THEN Ret([a EXCEPT !.edit_char_selection =
                               IF a.edit_char_selection < CHAR_DEL_INDEX
                               THEN a.edit_char_selection + 1 ELSE 0], f)
        ELSE IF key = "Left"
        THEN IF a.edit_char_pos > 0
             THEN Ret([a EXCEPT !.edit_char_pos = a.edit_char_pos - 1], f)
             ELSE IF ~in_title
             THEN Ret([a EXCEPT !.edit_track_field = "TRACK_FIELD_TITLE",
                                !.edit_char_pos = 0,
                                !.edit_char_selection = 0], f)
             ELSE Ret(a, f)
        ELSE IF key = "Right"
        THEN IF a.edit_char_pos < Len(field) /\ a.edit_char_pos < max_len - 1
             THEN Ret([a EXCEPT !.edit_char_pos = a.edit_char_pos + 1], f)
             ELSE IF a.edit_char_pos = Len(field) /\ a.edit_char_pos < max_len - 1
             THEN Ret(a, f)
             ELSE IF in_title
             THEN Ret([a EXCEPT !.edit_track_field = "TRACK_FIELD_DURATION",
                                !.edit_char_pos = 0,
                                !.edit_char_selection = CHAR_DIGIT_FIRST], f)
             ELSE Ret(a, f)
        ELSE IF key = "Ok"
        THEN IF ~in_title
             THEN IF a.edit_char_selection >= CHAR_DIGIT_FIRST
                     /\ a.edit_char_selection < CHAR_DIGIT_END
                  THEN Ret(SetDuration(DurationText(
                               Min(Accumulate(current_seconds,
                                              a.edit_char_selection - CHAR_DIGIT_FIRST),
                                   99999))), f)
                  ELSE Ret(a, f)
             ELSE IF a.edit_char_selection >= CHAR_DEL_INDEX
             THEN Ret(SetField(DeleteChar(field, a.edit_char_pos)), f)
             ELSE IF a.edit_char_pos >= 0 /\ a.edit_char_pos < max_len - 1
             THEN Ret(SetTitle(InsertChar(field, a.edit_char_pos, a.edit_char_selection,
                                          max_len)), f)
             ELSE Ret(a, f)
        ELSE IF key = "Back"
        THEN IF is_long_press
             THEN Ret([a EXCEPT !.editing_track = FALSE,
                                !.edit_char_pos = 0,
                                !.edit_char_selection = 0], f)
             ELSE IF a.edit_char_pos = 0
             THEN Ret([a EXCEPT !.edit_track_field = IF in_title THEN "TRACK_FIELD_DURATION"
                                                     ELSE "TRACK_FIELD_TITLE",
                                !.edit_char_selection = IF in_title THEN CHAR_DIGIT_FIRST ELSE 0,
                                !.edit_char_pos = 0], f)
             ELSE IF ~in_title
             THEN Ret(SetDuration(IF current_seconds \div 10 > 0
                                  THEN DurationText(current_seconds \div 10)
                                  ELSE <<>>), f)
             ELSE IF a.edit_char_pos <= Len(field) /\ a.edit_char_pos > 0
             THEN Ret(SetTitle([field |-> RemoveAt(field, a.edit_char_pos - 1),
                                pos |-> a.edit_char_pos - 1]), f)
             ELSE Ret([a EXCEPT !.dirty = TRUE], f)
        ELSE Ret(a, f)

TrackManagementInput(a0, f, key, is_long_press) ==
    LET slot == flipchanger_get_slot(a0, a0.current_slot_index)
        count == IF slot = -1 THEN 0 ELSE a0.slots[slot].cd.track_count
        sel0 == Max(a0.edit_selected_track, 0)
        a == [a0 EXCEPT !.edit_selected_track =
                            IF count > 0 /\ sel0 >= count THEN count - 1 ELSE sel0]
    IN  IF slot = -1
        THEN Ret(IF key = "Back"
                 THEN [a0 EXCEPT !.current_view = IF is_long_press THEN "VIEW_SLOT_LIST"
                                                  ELSE "VIEW_ADD_EDIT_CD"]
                 ELSE a0, f)
        ELSE IF a.editing_track
        THEN TrackEditInput(a, f, key, is_long_press, slot)
        ELSE IF key = "Up"
        THEN Ret([a EXCEPT !.edit_selected_track = IF a.edit_selected_track > 0
                                                   THEN a.edit_selected_track - 1
                                                   ELSE a.edit_selected_track], f)
        ELSE IF key = "Down"
        THEN Ret([a EXCEPT !.edit_selected_track = IF a.edit_selected_track < count - 1
                                                   THEN a.edit_selected_track + 1
                                                   ELSE a.edit_selected_track], f)
        ELSE IF key = "Ok"
        THEN IF a.edit_selected_track >= 0 /\ a.edit_selected_track < count
             THEN Ret([a EXCEPT !.editing_track = TRUE,
                                !.edit_track_field = "TRACK_FIELD_TITLE",
                                !.edit_char_pos = 0,
                                !.edit_char_selection = 0], f)
             ELSE Ret(a, f)
        ELSE IF key = "Right" THEN Ret(AddTrack(a, slot), f)
        ELSE IF key = "Left" THEN Ret(DeleteTrack(a, slot), f)
        ELSE IF key = "Back"
        THEN IF is_long_press THEN Ret([a EXCEPT !.current_view = "VIEW_SLOT_LIST"], f)
             ELSE Ret([a EXCEPT !.current_view = "VIEW_ADD_EDIT_CD",
                                !.edit_field = "FIELD_TRACKS"], f)
        ELSE Ret(a, f)

\* a press while the splash screen shows (lines 1718-1721)
SplashInput(a, f) == Ret(flipchanger_show_main_menu(a), f)

---------------------------------------------------------------------------
(* flipchanger_main (flipchanger.c 2752-2862): start-up, the main loop and *)
(* the exit sequence                                                       *)

\* a start-up that reads no slot document
BootDataSkipped(d, sd) == d

\* flipchanger_load_data(app) at line 2791, d being [app, files]
BootData(d, sd) == Ret(flipchanger_load_data(d.app, d.files, sd), d.files)

BootDefault(first, f, sd) == Ret(first, flipchanger_save_changers(first, f, sd))

\* a start-up that creates no "Default" changer for an empty registry
BootRegistryAsLoaded(l, sd) == BootData(l, sd)

\* lines 2778-2791: the "Default" changer of an empty registry, then the slots
BootRegistry(l, sd) ==
    IF l.app.changer_count = 0
    THEN BootData(BootDefault(DefaultRegistry(l.app, DEFAULT_SLOTS), l.files, sd), sd)
    ELSE BootData(l, sd)

BootResult(a, f, sd) == BootRegistry(flipchanger_load_changers(a, f, sd), sd)

\* flipchanger_save_changers(app) after the slots were saved or read
RegistrySaved(s, sd) == Ret(s.app, flipchanger_save_changers(s.app, s.files, sd))

\* lines 2801-2805: [app, files]
SwitchResult(a, f, sd) ==
    RegistrySaved(Ret(flipchanger_load_data([a EXCEPT !.pending_changer_switch = FALSE],
                                            f, sd), f), sd)

\* an exit that writes the registry and leaves the slots as they are
CleanupRegistryOnly(a, f, sd) == RegistrySaved(Ret(a, f), sd)

\* lines 2827-2832: [app, files]
CleanupResult(a, f, sd) == RegistrySaved(SavedIfDirty(a, f, sd), sd)

---------------------------------------------------------------------------
(* The state machine.  last names the step that led to the state and the   *)
(* slot index it handed to flipchanger_update_cache (-1 when it made no    *)
(* such call); prev is the application and the card before that step.      *)

NoStep == [op |-> "none", key |-> "none", long |-> FALSE, index |-> -1]

Step(r, op, key, is_long_press, index) ==
    /\ app' = r.app
    /\ files' = r.files
    /\ prev' = [app |-> app, files |-> files]
    /\ last' = [op |-> op, key |-> key, long |-> is_long_press, index |-> index]

Boot(sd) ==
    /\ phase = "boot"
    /\ phase' = "loop"
    /\ Step(BootResult(app, files, sd), "boot", "none", FALSE, -1)

\* the splash screen times out (lines 2796-2800)
SplashTimeout ==
    /\ phase = "loop" /\ app.running
    /\ app.current_view = "VIEW_SPLASH"
    /\ UNCHANGED phase
    /\ Step(Ret(flipchanger_show_main_menu(app), files), "splash_timeout", "none", FALSE, -1)

\* the main loop serves a deferred changer switch (lines 2801-2806)
ChangerSwitch(sd) ==
    /\ phase = "loop" /\ app.running
    /\ app.current_view # "VIEW_SPLASH"
    /\ app.pending_changer_switch
    /\ UNCHANGED phase
    /\ Step(SwitchResult(app, files, sd), "changer_switch", "none", FALSE, -1)

\* the loop ends and the exit sequence runs (lines 2810-2859)
Cleanup(sd) ==
    /\ phase = "loop" /\ ~app.running
    /\ phase' = "done"
    /\ Step(CleanupResult(app, files, sd), "cleanup", "none", FALSE, -1)

\* the guard of every press: the app runs and shows the view
Shows(view) == phase = "loop" /\ app.running /\ app.current_view = view

InputSplash(key) ==
    /\ Shows("VIEW_SPLASH")
    /\ UNCHANGED phase
    /\ Step(SplashInput(app, files), "VIEW_SPLASH", key, FALSE, -1)

InputMainMenu(key, is_long_press) ==
    /\ Shows("VIEW_MAIN_MENU")
    /\ UNCHANGED phase
    /\ Step(MainMenuInput(app, files, key), "VIEW_MAIN_MENU", key, is_long_press, -1)

InputChangers(key, is_long_press) ==
    /\ Shows("VIEW_CHANGERS")
    /\ UNCHANGED phase
    /\ Step(ChangersInput(app, files, key, is_long_press), "VIEW_CHANGERS", key,
            is_long_press, -1)

InputAddEditChanger(key, sd) ==
    /\ Shows("VIEW_ADD_EDIT_CHANGER")
    /\ UNCHANGED phase
    /\ Step(AddEditChangerInput(app, files, sd, key), "VIEW_ADD_EDIT_CHANGER", key, FALSE, -1)

InputConfirmDeleteChanger(key, sd) ==
    /\ Shows("VIEW_CONFIRM_DELETE_CHANGER")
    /\ UNCHANGED phase
    /\ Step(ConfirmDeleteChangerInput(app, files, sd, key), "VIEW_CONFIRM_DELETE_CHANGER",
            key, FALSE, -1)

InputHelp(key) ==
    /\ Shows("VIEW_HELP")
    /\ UNCHANGED phase
    /\ Step(HelpInput(app, files, key), "VIEW_HELP", key, FALSE, -1)

InputSlotList(key, is_long_press, sd) ==
    /\ Shows("VIEW_SLOT_LIST")
    /\ UNCHANGED phase
    /\ Step(SlotListInput(app, files, sd, key, is_long_press), "VIEW_SLOT_LIST", key,
            is_long_press, IF key = "Ok" THEN app.selected_index ELSE -1)

InputSlotDetails(key, sd) ==
    /\ Shows("VIEW_SLOT_DETAILS")
    /\ UNCHANGED phase
    /\ Step(SlotDetailsInput(app, files, sd, key), "VIEW_SLOT_DETAILS", key, FALSE,
            IF key = "Ok" THEN app.current_slot_index ELSE -1)

InputAddEditCD(key, is_long_press, sd) ==
    /\ Shows("VIEW_ADD_EDIT_CD")
    /\ UNCHANGED phase
    /\ Step(AddEditCDInput(app, files, sd, key, is_long_press), "VIEW_ADD_EDIT_CD", key,
            is_long_press, -1)

InputTrackManagement(key, is_long_press) ==
    /\ Shows("VIEW_TRACK_MANAGEMENT")
    /\ UNCHANGED phase
    /\ Step(TrackManagementInput(app, files, key, is_long_press), "VIEW_TRACK_MANAGEMENT",
            key, is_long_press, -1)

InputSettings(key, is_long_press, sd) ==
    /\ Shows("VIEW_SETTINGS")
    /\ UNCHANGED phase
    /\ Step(SettingsInput(app, files, sd, key, is_long_press), "VIEW_SETTINGS", key,
            is_long_press, -1)

InputStatistics(key, is_long_press) ==
    /\ Shows("VIEW_STATISTICS")
    /\ UNCHANGED phase
    /\ Step(StatisticsInput(app, files, key, is_long_press), "VIEW_STATISTICS", key,
            is_long_press, -1)

---------------------------------------------------------------------------
(* Bounds of the explorations.                                             *)

\* slots of the changer on the card the explorations start from
CardSlots == 11
\* the largest slot count the changer form is driven to
MaxSlotCount == 12
\* slots of a collection that vary in the round trip of the codec
CodecSlots == 3

---------------------------------------------------------------------------
(* The cards the explorations start from.  A card maps the stem of a file  *)
(* to its text; every text below is one the application writes itself.     *)

FreshCard == [s \in {} |-> <<>>]

CardFile(stem, text) == [s \in {stem} |-> text]

PlainTrack(number) == [number |-> number, title |-> <<"T">>, duration |-> <<"6","0">>]

PlainCD ==
    [EmptyCD EXCEPT !.artist = <<"A">>, !.album = <<"B">>,
                    !.tracks = <<PlainTrack(1)>>, !.track_count = 1]

\* a CD whose text holds the two characters the writer escapes
EscapedCD ==
    [EmptyCD EXCEPT !.artist = <<"A", QUOTE>>, !.album = <<BACKSLASH, "B">>]

OccupiedSlot(i, cd) == [slot_number |-> i + 1, occupied |-> TRUE, cd |-> cd]

\* the registry of one changer "changer_0" with total_slots slots
OneChanger(total_slots) ==
    [i \in 0..(MAX_CHANGERS - 1) |->
        IF i = 0 THEN [id |-> CHANGER_0, name |-> DEFAULT_NAME, location |-> <<>>,
                       total_slots |-> total_slots]
        ELSE ZeroChanger]

RegistryOf(changers, count) ==
    RegistryText([current_changer_id |-> changers[0].id, changer_count |-> count,
                  changers |-> changers])

CollectionOf(filled, total_slots) ==
    [total_slots |-> total_slots,
     slots |-> [i \in 0..(SLOT_CACHE_SIZE - 1) |->
                   IF i \in DOMAIN filled THEN OccupiedSlot(i, filled[i]) ELSE EmptySlot(i)]]

\* one changer of CardSlots slots with a CD in its sixth slot
CardOneCD ==
    WriteFile(CardFile(CHANGERS_STEM, RegistryOf(OneChanger(CardSlots), 1)),
              CHANGER_0, DataText(CollectionOf([i \in {5} |-> PlainCD], CardSlots)))

---------------------------------------------------------------------------
(* SpecCodec: flipchanger_save_data and flipchanger_load_data applied to   *)
(* collections drawn from a bounded set.                                   *)

CodecContents == {EmptySlot(0), OccupiedSlot(0, PlainCD), OccupiedSlot(0, EscapedCD)}

CodecCollections ==
    {[i \in 0..(SLOT_CACHE_SIZE - 1) |->
         IF i < CodecSlots THEN [c[i] EXCEPT !.slot_number = i + 1] ELSE EmptySlot(i)] :
     c \in [0..(CodecSlots - 1) -> CodecContents]}

Booted(card) == BootResult(ZeroApp, card, TRUE).app

InitCodec ==
    /\ phase = "codec"
    /\ files = CardFile(CHANGERS_STEM, RegistryOf(OneChanger(CardSlots), 1))
    /\ app \in {[Booted(files) EXCEPT !.slots = c] : c \in CodecCollections}
    /\ last = NoStep
    /\ prev = [app |-> app, files |-> files]

SaveData ==
    /\ phase = "codec"
    /\ UNCHANGED phase
    /\ Step(flipchanger_save_data(app, files, TRUE), "save_data", "none", FALSE, -1)

LoadData ==
    /\ phase = "codec"
    /\ flipchanger_get_slots_path(app) \in DOMAIN files
    /\ UNCHANGED phase
    /\ Step(Ret(flipchanger_load_data(app, files, TRUE), files), "load_data", "none",
            FALSE, -1)

NextCodec == SaveData \/ LoadData

SpecCodec == InitCodec /\ [][NextCodec]_vars

SameTrack(x, y) == x.number = y.number /\ x.title = y.title /\ x.duration = y.duration

SameCD(x, y) ==
    /\ x.artist = y.artist /\ x.album_artist = y.album_artist /\ x.album = y.album
    /\ x.year = y.year /\ x.disc_number = y.disc_number
    /\ x.genre = y.genre /\ x.notes = y.notes
    /\ x.track_count = y.track_count
    /\ \A t \in 0..(y.track_count - 1) : SameTrack(TrackAt(x, t), TrackAt(y, t))

SameCollection(x, y) ==
    \A i \in 0..(SLOT_CACHE_SIZE - 1) :
        i < y.total_slots =>
            /\ x.slots[i].occupied = y.slots[i].occupied
            /\ y.slots[i].occupied => SameCD(x.slots[i].cd, y.slots[i].cd)

\* the step read a document that holds the collection resident before it
ReloadedOwnSave ==
    /\ last.op = "load_data"
    /\ flipchanger_get_slots_path(prev.app) \in DOMAIN prev.files
    /\ prev.files[flipchanger_get_slots_path(prev.app)] = DataText(prev.app)

\* C1: a collection written by save_data and read back by load_data is
\* the collection that was resident: same occupied flags, same text fields,
\* year and disc number, same tracks in the same order and numbering.
C1_RoundTrip == ReloadedOwnSave => SameCollection(app, prev.app)

\* what is lost needs no escaped character: two plain CDs side by side
C1_PlainPair ==
    ReloadedOwnSave /\ prev.app.slots[0].cd = PlainCD /\ prev.app.slots[1].cd = PlainCD
    => SameCollection(app, prev.app)

---------------------------------------------------------------------------
(* Spec: the slot screens of one changer.  The card holds the changer and  *)
(* its slot document; the presses move through the main menu, down the     *)
(* slot list, into the slot details and the CD form, without typing text.  *)

Init ==
    /\ phase = "boot"
    /\ app = ZeroApp
    /\ files = CardOneCD
    /\ last = NoStep
    /\ prev = [app |-> app, files |-> files]

\* the main menu opens the slot list only
MenuPress(key) == key = "Ok" => app.selected_index \in {0, 1}

\* the slot details open the form of a CD that is there
DetailsPress(key) ==
    key = "Ok" =>
        /\ flipchanger_get_slot(app, app.current_slot_index) # -1
        /\ app.slots[flipchanger_get_slot(app, app.current_slot_index)].occupied

\* the presses taken in the CD form: down the fields to Save, the digit 0
\* of the year on the way, and out
CdFormPress(key, is_long_press) ==
    CASE app.edit_field = "FIELD_ARTIST" -> key \in {"Down", "Back"} /\ ~is_long_press
      [] app.edit_field = "FIELD_YEAR" ->
             (key \in {"Ok", "Down"} /\ ~is_long_press) \/ (key = "Back" /\ is_long_press)
      [] app.edit_field = "FIELD_SAVE" -> key \in {"Ok", "Back"} /\ ~is_long_press
      [] OTHER -> key = "Down" /\ ~is_long_press

Next ==
    \/ Boot(TRUE)
    \/ SplashTimeout
    \/ \E key \in {"Up", "Down", "Ok", "Back"} : MenuPress(key) /\ InputMainMenu(key, FALSE)
    \/ \E is_long_press \in BOOLEAN : InputSlotList("Down", is_long_press, TRUE)
    \/ \E key \in {"Ok", "Back"} : InputSlotList(key, FALSE, TRUE)
    \/ \E key \in {"Ok", "Back"} : DetailsPress(key) /\ InputSlotDetails(key, TRUE)
    \/ \E key \in Keys, is_long_press \in BOOLEAN :
           CdFormPress(key, is_long_press) /\ InputAddEditCD(key, is_long_press, TRUE)
    \/ Cleanup(TRUE)

Spec == Init /\ [][Next]_vars

---------------------------------------------------------------------------
(* Properties of the slot cache and of the lists, stated over a step: last *)
(* is the press, prev the state before it.                                 *)

\* the step called flipchanger_update_cache(app, last.index)
UpdateCacheCalled == last.index # -1

SlotsPath == flipchanger_get_slots_path(app)

\* the slot document marks position p (slot number p + 1) as occupied
DocOccupied(doc, p) ==
    Strstr(doc, 1, SLOT_A \o FormatLong(p + 1) \o <<",">> \o OCC_A \o TRUE_TOKEN) # 0

\* C3: with nothing unsaved, cache entry k holds what the current changer's
\* slot document stores for position cache_start_index + k.
C3_WindowHoldsDocument ==
    (phase = "loop" /\ ~app.dirty /\ SlotsPath \in DOMAIN files) =>
        \A k \in 0..(SLOT_CACHE_SIZE - 1) :
            app.cache_start_index + k < app.total_slots =>
                (app.slots[k].occupied
                 <=> DocOccupied(files[SlotsPath], app.cache_start_index + k))

\* C4: the slot a screen asks flipchanger_get_slot for, its index being in
\* [0, total_slots), is always returned.
C4_ShownSlotResolves ==
    (phase = "loop"
     /\ app.current_view \in {"VIEW_SLOT_DETAILS", "VIEW_ADD_EDIT_CD", "VIEW_TRACK_MANAGEMENT"}
     /\ app.current_slot_index >= 0 /\ app.current_slot_index < app.total_slots)
    => flipchanger_get_slot(app, app.current_slot_index) # -1

\* the window start centred on index i, clamped to [0, total_slots - 10]
CentredStart(a, i) ==
    Max(0, Min(i - SLOT_CACHE_SIZE \div 2, a.total_slots - SLOT_CACHE_SIZE))

Untouched ==
    /\ files = prev.files
    /\ app.slots = prev.app.slots
    /\ app.cache_start_index = prev.app.cache_start_index
    /\ app.total_slots = prev.app.total_slots
    /\ app.dirty = prev.app.dirty

\* C5 (as the code has it): update_cache(index) saves nothing, reloads
\* nothing and leaves cache_start_index and the resident slots unchanged
\* whenever the start centred on index is the current start.
C5_NoShiftNoTouch ==
    (UpdateCacheCalled /\ CentredStart(prev.app, last.index) = prev.app.cache_start_index)
    => Untouched

\* unsaved changes were resident, and the call left them and the card alone
C5_Witness ==
    /\ UpdateCacheCalled
    /\ CentredStart(prev.app, last.index) = prev.app.cache_start_index
    /\ prev.app.dirty
    /\ Untouched

\* C5 (as stated): update_cache(index) touches nothing whenever index lies
\* in [cache_start_index, cache_start_index + 10).
C5_ResidentNoTouch ==
    (UpdateCacheCalled
     /\ prev.app.cache_start_index <= last.index
     /\ last.index < prev.app.cache_start_index + SLOT_CACHE_SIZE)
    => Untouched

\* C10: after every Up or Down press in a list screen the selected index
\* lies in the visible window, scroll_offset <= selected_index <
\* scroll_offset + 5.
C10_SelectionVisible ==
    (last.op \in {"VIEW_MAIN_MENU", "VIEW_SLOT_LIST", "VIEW_CHANGERS"}
     /\ last.key \in {"Up", "Down"})
    => (app.scroll_offset <= app.selected_index
        /\ app.selected_index < app.scroll_offset + VISIBLE_COUNT)

---------------------------------------------------------------------------
(* SpecResize: the slot count of the changer is raised in the changer form *)
(* and the slot list is then walked upwards from its first row.            *)

\* the main menu opens the slot list and the changers
ResizeMenuPress(key) == key = "Ok" => app.selected_index \in {0, 4}

\* the presses taken in the changer form: from the name to Save, up to the
\* slot count, the count raised up to MaxSlotCount, Save, and out
ChangerFormPress(key) ==
    CASE app.edit_changer_field = CHANGER_FIELD_SLOTS ->
             (key = "Up" /\ app.edit_changer.total_slots < MaxSlotCount) \/ key = "Ok"
      [] app.edit_changer_field = CHANGER_FIELD_SAVE -> key \in {"Up", "Ok"}
      [] OTHER -> key \in {"Left", "Back"} /\ app.edit_char_pos = 0

NextResize ==
    \/ Boot(TRUE)
    \/ SplashTimeout
    \/ \E key \in {"Down", "Ok"} : ResizeMenuPress(key) /\ InputMainMenu(key, FALSE)
    \/ InputChangers("Ok", TRUE)
    \/ InputChangers("Back", FALSE)
    \/ \E key \in Keys : ChangerFormPress(key) /\ InputAddEditChanger(key, TRUE)
    \/ \E key \in {"Up", "Ok", "Back"} : InputSlotList(key, FALSE, TRUE)
    \/ InputSlotDetails("Back", TRUE)

SpecResize == Init /\ [][NextResize]_vars

\* C2: for every index i in [0, total_slots), after update_cache(i)
\* get_slot(i) is not NULL, i lies in [cache_start_index,
\* cache_start_index + 10), and that window lies within [0, total_slots).
C2_RequestedSlotResident ==
    (UpdateCacheCalled /\ last.index >= 0 /\ last.index < prev.app.total_slots) =>
        /\ flipchanger_get_slot(app, last.index) # -1
        /\ app.cache_start_index <= last.index
        /\ last.index < app.cache_start_index + SLOT_CACHE_SIZE
        /\ app.cache_start_index >= 0
        /\ app.cache_start_index + SLOT_CACHE_SIZE <= app.total_slots

---------------------------------------------------------------------------
(* SpecTracks: the track list of one CD.  The slot document on the card    *)
(* was edited outside the application: its two tracks carry the numbers 5  *)
(* and 2.  The presses open the CD's form, walk to its Tracks field and    *)
(* add, delete and select tracks.                                          *)

RenumberedCD ==
    [PlainCD EXCEPT !.tracks = <<[PlainTrack(1) EXCEPT !.number = 5], PlainTrack(2)>>,
                    !.track_count = 2]

CardRenumbered ==
    WriteFile(CardFile(CHANGERS_STEM, RegistryOf(OneChanger(CardSlots), 1)),
              CHANGER_0, DataText(CollectionOf([i \in {0} |-> RenumberedCD], CardSlots)))

InitTracks ==
    /\ phase = "boot"
    /\ app = ZeroApp
    /\ files = CardRenumbered
    /\ last = NoStep
    /\ prev = [app |-> app, files |-> files]

\* the presses taken in the CD form: up to Notes, down to Tracks, in
TracksFormPress(key) ==
    CASE app.edit_field = "FIELD_ARTIST" -> key = "Up"
      [] app.edit_field = "FIELD_NOTES" -> key = "Down"
      [] app.edit_field = "FIELD_TRACKS" -> key = "Ok"
      [] OTHER -> FALSE

NextTracks ==
    \/ Boot(TRUE)
    \/ SplashTimeout
    \/ InputMainMenu("Ok", FALSE)
    \/ InputSlotList("Ok", FALSE, TRUE)
    \/ InputSlotDetails("Ok", TRUE)
    \/ \E key \in {"Up", "Down", "Ok"} :
           TracksFormPress(key) /\ InputAddEditCD(key, FALSE, TRUE)
    \/ \E key \in {"Up", "Down", "Left", "Right", "Back"} : InputTrackManagement(key, FALSE)

SpecTracks == InitTracks /\ [][NextTracks]_vars

\* the CD whose tracks the track screen shows
ShownCD(a) == a.slots[flipchanger_get_slot(a, a.current_slot_index)].cd

TrackAdded == last.op = "VIEW_TRACK_MANAGEMENT" /\ last.key = "Right"
TrackDeleted == last.op = "VIEW_TRACK_MANAGEMENT" /\ last.key = "Left"

\* C6: after an add-track or a delete-track on a loaded CD, the numbers of
\* tracks[0..track_count-1] are 1..track_count in order, and track_count
\* lies in 0..MAX_TRACKS.
C6_TracksNumbered ==
    (TrackAdded \/ TrackDeleted) =>
        /\ ShownCD(app).track_count >= 0
        /\ ShownCD(app).track_count <= MAX_TRACKS
        /\ \A t \in 0..(ShownCD(app).track_count - 1) :
               TrackAt(ShownCD(app), t).number = t + 1

---------------------------------------------------------------------------
(* SpecChangers: the registry of changers.  The card is fresh, holds the   *)
(* legacy slot file only, or holds a registry the application wrote: one   *)
(* of two changers whose last_used_id names the second, or one of          *)
(* MAX_CHANGERS changers whose last_used_id names the last.  The presses   *)
(* open the changer list, walk down it, add changers named "A", and edit   *)
(* and delete changers of a registry of EditedCount.                       *)

\* the registry size at which changers are edited and deleted
EditedCount == 2

\* MAX_CHANGERS changers with the identifiers the application mints
MintedChangers ==
    [i \in 0..(MAX_CHANGERS - 1) |->
        [id |-> CHANGER_PREFIX \o FormatLong(i), name |-> <<"A">>, location |-> <<>>,
         total_slots |-> CardSlots]]

\* the registry file of the first count of them, the one at current in use
RegistryWith(count, current) ==
    RegistryText([current_changer_id |-> MintedChangers[current].id,
                  changer_count |-> count,
                  changers |-> MintedChangers])

CardTwoChangers == CardFile(CHANGERS_STEM, RegistryWith(2, 1))

CardFullRegistry ==
    CardFile(CHANGERS_STEM, RegistryWith(MAX_CHANGERS, MAX_CHANGERS - 1))

CardLegacy ==
    CardFile(DATA_STEM, DataText(CollectionOf([i \in {0} |-> PlainCD], CardSlots)))

InitChangers ==
    /\ phase = "boot"
    /\ app = ZeroApp
    /\ files \in {FreshCard, CardLegacy, CardTwoChangers, CardFullRegistry}
    /\ last = NoStep
    /\ prev = [app |-> app, files |-> files]

\* the main menu is walked down to its Changers row
ChangersMenuPress(key) ==
    IF app.selected_index = 4 THEN key = "Ok" ELSE key = "Down"

\* the changer list: down the rows, a short Ok on the add row, a long Ok on
\* a changer of a registry of EditedCount
ChangerListPress(key, is_long_press) ==
    \/ key = "Down" /\ ~is_long_press
    \/ key = "Ok" /\ ~is_long_press /\ app.changer_count < MAX_CHANGERS
                  /\ app.selected_index = app.changer_count
    \/ key = "Ok" /\ is_long_press /\ app.changer_count = EditedCount
                  /\ app.selected_index < app.changer_count

\* the changer form: the letter A typed into an empty name, left out of
\* the name to Delete or Save, and the press of either
RegistryFormPress(key) ==
    CASE app.edit_changer_field = CHANGER_FIELD_NAME ->
             \/ key = "Ok" /\ app.edit_changer.name = <<>> /\ app.edit_char_selection = 0
             \/ key = "Left" /\ app.edit_changer.name # <<>>
      [] app.edit_changer_field = CHANGER_FIELD_SAVE -> key = "Ok"
      [] app.edit_changer_field = CHANGER_FIELD_DELETE -> key \in {"Ok", "Down"}
      [] OTHER -> FALSE

NextChangers ==
    \/ Boot(TRUE)
    \/ SplashTimeout
    \/ \E key \in {"Down", "Ok"} : ChangersMenuPress(key) /\ InputMainMenu(key, FALSE)
    \/ \E key \in {"Down", "Ok"}, is_long_press \in BOOLEAN :
           ChangerListPress(key, is_long_press) /\ InputChangers(key, is_long_press)
    \/ \E key \in {"Ok", "Left", "Down"} :
           RegistryFormPress(key) /\ InputAddEditChanger(key, TRUE)
    \/ \E key \in {"Ok", "Back"} : InputConfirmDeleteChanger(key, TRUE)

SpecChangers == InitChangers /\ [][NextChangers]_vars

ChangerSaved ==
    /\ last.op = "VIEW_ADD_EDIT_CHANGER" /\ last.key = "Ok"
    /\ prev.app.edit_changer_field = CHANGER_FIELD_SAVE

\* C8: the changers of the registry have pairwise distinct identifiers,
\* and saving the form of an existing changer leaves its identifier alone.
C8_IdentifiersDistinct ==
    /\ \A i, j \in 0..(app.changer_count - 1) :
           i # j => app.changers[i].id # app.changers[j].id
    /\ (ChangerSaved /\ prev.app.edit_changer_index >= 0) =>
           app.changers[prev.app.edit_changer_index].id =
               prev.app.changers[prev.app.edit_changer_index].id

\* the last_used_id the registry file on card f holds, <<>> without one
StoredLastUsedId(f) ==
    IF CHANGERS_STEM \in DOMAIN f
    THEN WithLastUsed(ClearedRegistry(ZeroApp),
                      ReadBuffer(f, CHANGERS_STEM, CHANGERS_BUFFER_SIZE),
                      find_json_key(ReadBuffer(f, CHANGERS_STEM, CHANGERS_BUFFER_SIZE),
                                    1, K_last_used_id)).current_changer_id
    ELSE <<>>

\* what C9 asks of l, the application as flipchanger_load_changers left it
CurrentResolved(l, stored) ==
    l.changer_count > 0 =>
        /\ IndexValid(l)
        /\ l.current_changer_id = l.changers[l.current_changer_index].id
        /\ ((\A i \in 0..(l.changer_count - 1) : l.changers[i].id # stored)
                => l.current_changer_index = 0)

\* C9: when flipchanger_load_changers has loaded a changer,
\* current_changer_index is an index of the registry, current_changer_id is
\* the id of the changer there, and that changer is the first one when the
\* stored last_used_id is the id of no loaded changer.
C9_CurrentChangerResolved ==
    last.op = "boot" =>
        CurrentResolved(flipchanger_load_changers(prev.app, prev.files, TRUE).app,
                        StoredLastUsedId(prev.files))

\* the registry of MAX_CHANGERS changers was read: its last_used_id names
\* a changer the read did not reach, and the first changer is the current
C9_Witness ==
    /\ last.op = "boot"
    /\ prev.files = CardFullRegistry
    /\ app.changer_count > 1
    /\ \A i \in 0..(app.changer_count - 1) :
           app.changers[i].id # StoredLastUsedId(prev.files)
    /\ app.current_changer_index = 0

---------------------------------------------------------------------------
(* A CD saved in the form, the application left and started again, and the *)
(* details of the same slot opened from the slot list.                     *)

\* the slot list walked down by n short presses
RECURSIVE PressedDown(_, _)
PressedDown(r, n) ==
    IF n = 0 THEN r
    ELSE PressedDown(SlotListInput(r.app, r.files, TRUE, "Down", FALSE), n - 1)

\* Ok on row slot_index of the slot list, entered from the main menu m
OpenedFromMenu(m, slot_index) ==
    SlotListInput(PressedDown(m, slot_index).app, PressedDown(m, slot_index).files,
                  TRUE, "Ok", FALSE)

\* the main menu after the start-up b: its first row opens the slot list
OpenedAfterBoot(b, slot_index) ==
    OpenedFromMenu(MainMenuInput(flipchanger_show_main_menu(b.app), b.files, "Ok"),
                   slot_index)

\* the exit sequence on card f, a new start, and the details of slot_index
OpenedAfterRestart(a, f, slot_index) ==
    OpenedAfterBoot(BootResult(ZeroApp, CleanupResult(a, f, TRUE).files, TRUE), slot_index)

\* the details screen of r shows slot_index with the CD cd
DetailsShow(r, slot_index, cd) ==
    /\ r.current_view = "VIEW_SLOT_DETAILS"
    /\ r.current_slot_index = slot_index
    /\ flipchanger_get_slot(r, slot_index) # -1
    /\ r.slots[Max(flipchanger_get_slot(r, slot_index), 0)].occupied
    /\ ShownCD(r).artist = cd.artist
    /\ ShownCD(r).album = cd.album
    /\ ShownCD(r).year = cd.year
    /\ ShownCD(r).track_count = cd.track_count

\* Save was pressed in the CD form on a resident slot
CdSaved ==
    /\ last.op = "VIEW_ADD_EDIT_CD" /\ last.key = "Ok"
    /\ prev.app.edit_field = "FIELD_SAVE"
    /\ flipchanger_get_slot(prev.app, prev.app.current_slot_index) # -1

\* C11: for every slot index s, once Save was pressed in the form of slot s,
\* a restart followed by opening the details of slot s shows the artist, the
\* album, the year and the track count that were saved.
C11_SavedSlotSurvivesRestart ==
    CdSaved =>
        DetailsShow(OpenedAfterRestart(app, files, app.current_slot_index).app,
                    app.current_slot_index, ShownCD(app))

---------------------------------------------------------------------------
(* SpecBoot: the start-up on a range of cards, up to the main menu.  The   *)
(* cards are empty, hold a legacy slot file of several sizes, hold a       *)
(* registry and slot documents the application wrote, or hold a registry   *)
(* or a slot document that was cut short.                                  *)

\* CDs of the legacy document that does not fit the read buffer
LargeLegacyCDs == 7

\* characters of each long text of such a CD
LongTextLen == 50

LongText(n) == [i \in 1..n |-> "n"]

\* a CD with a long artist, album artist, album, genre and notes
NotedCD ==
    [PlainCD EXCEPT !.artist = LongText(LongTextLen),
                    !.album_artist = LongText(LongTextLen),
                    !.album = LongText(LongTextLen),
                    !.genre = LongText(Min(LongTextLen, MAX_GENRE_LENGTH - 1)),
                    !.notes = LongText(LongTextLen)]

NoCDs == [i \in {} |-> PlainCD]

\* the collections the legacy files hold
LegacyCollections ==
    {CollectionOf([i \in {0} |-> PlainCD], CardSlots),
     CollectionOf(NoCDs, MIN_SLOTS),
     CollectionOf([i \in {0, 1} |-> PlainCD], MAX_SLOTS),
     CollectionOf([i \in 0..(LargeLegacyCDs - 1) |-> NotedCD], CardSlots)}

LegacyCards == {CardFile(DATA_STEM, DataText(c)) : c \in LegacyCollections}

\* a document of which only the beginning of the header is there
Garbled == SubSeq(DATA_HEADER_A, 1, 12)

\* the first half of a document
CutShort(text) == SubSeq(text, 1, Len(text) \div 2)

MalformedRegistries == {Garbled, CutShort(RegistryWith(2, 1))}

MalformedSlotDocuments == {Garbled, CutShort(CardLegacy[DATA_STEM])}

\* a malformed registry on an otherwise empty card and beside a legacy file;
\* a malformed slot document beside the registry of its changer
MalformedCards ==
    {CardFile(CHANGERS_STEM, text) : text \in MalformedRegistries}
    \cup {WriteFile(CardLegacy, CHANGERS_STEM, text) : text \in MalformedRegistries}
    \cup {WriteFile(CardFile(CHANGERS_STEM, RegistryOf(OneChanger(CardSlots), 1)),
                    CHANGER_0, text) : text \in MalformedSlotDocuments}

BootCards ==
    {FreshCard, CardOneCD, CardTwoChangers, CardFullRegistry}
    \cup LegacyCards \cup MalformedCards

InitBoot ==
    /\ phase = "boot"
    /\ app = ZeroApp
    /\ files \in BootCards
    /\ last = NoStep
    /\ prev = [app |-> app, files |-> files]

NextBoot ==
    \/ Boot(TRUE)
    \/ SplashTimeout
    \/ \E key \in Keys : InputSplash(key)
    \/ \E key \in {"Up", "Down"} : InputMainMenu(key, FALSE)

SpecBoot == InitBoot /\ [][NextBoot]_vars

\* the title flipchanger_draw_main_menu draws
APP_TITLE == <<"F","l","i","p","C","h","a","n","g","e","r">>

MainMenuTitle(a) ==
    IF a.changer_count > 0 /\ IndexValid(a)
       /\ a.changers[Max(a.current_changer_index, 0)].name # <<>>
    THEN a.changers[a.current_changer_index].name
    ELSE APP_TITLE

\* the main menu is shown for the first time
FirstPresented == last.op \in {"splash_timeout", "VIEW_SPLASH"}

\* reading the current changer's slot document now would change nothing
WindowLoaded(a, f) ==
    /\ a.cache_start_index = 0
    /\ a.total_slots >= MIN_SLOTS
    /\ flipchanger_load_data(a, f, TRUE).slots = a.slots
    /\ flipchanger_load_data(a, f, TRUE).total_slots = a.total_slots

RegistryReady(a, f) ==
    /\ a.changer_count >= 1
    /\ IndexValid(a)
    /\ a.current_changer_id = a.changers[Max(a.current_changer_index, 0)].id
    /\ WindowLoaded(a, f)

FreshInstall(a, f) ==
    /\ a.changer_count = 1
    /\ a.changers[0].name = DEFAULT_NAME
    /\ a.changers[0].total_slots = DEFAULT_SLOTS
    /\ CHANGERS_STEM \in DOMAIN f
    /\ f[CHANGERS_STEM] = RegistryText(a)
    /\ MainMenuTitle(a) = DEFAULT_NAME

HoldsOccupiedSlots(doc, c) ==
    \A i \in 0..(SLOT_CACHE_SIZE - 1) :
        (i < c.total_slots /\ c.slots[i].occupied) =>
            Strstr(doc, 1, SlotText(c.slots[i])) # 0

Migrated(a, f, c) ==
    /\ a.changer_count = 1
    /\ a.changers[0].total_slots = c.total_slots
    /\ CHANGER_0 \in DOMAIN f
    /\ HoldsOccupiedSlots(f[CHANGER_0], c)

\* C13: a start-up that finds a legacy slot file and no registry leaves a
\* registry of one changer whose slot count is the legacy total_slots, and
\* a slot document of that changer that holds every occupied slot of the
\* legacy document with the same fields, whatever the document's size.
C13_LegacyMigrated ==
    last.op = "boot" =>
        \A c \in LegacyCollections :
            prev.files = CardFile(DATA_STEM, DataText(c)) => Migrated(app, files, c)

Without(f, stem) == [s \in (DOMAIN f) \ {stem} |-> f[s]]

IsMalformed(f, stem) ==
    /\ stem \in DOMAIN f
    /\ f[stem] \in (IF stem = CHANGERS_STEM THEN MalformedRegistries
                    ELSE MalformedSlotDocuments)

\* the start-up on card f ends as the start-up on card g, the file stem aside
SameBoot(f, g, stem) ==
    /\ BootResult(ZeroApp, f, TRUE).app = BootResult(ZeroApp, g, TRUE).app
    /\ Without(BootResult(ZeroApp, f, TRUE).files, stem)
           = Without(BootResult(ZeroApp, g, TRUE).files, stem)

\* C14: a start-up on a card whose registry or slot document is malformed
\* ends in the state the start-up reaches when that file is absent,
\* the migration of a legacy file included.
C14_MalformedAsAbsent ==
    last.op = "boot" =>
        \A stem \in {CHANGERS_STEM, CHANGER_0} :
            IsMalformed(prev.files, stem) =>
                SameBoot(prev.files, Without(prev.files, stem), stem)

\* the same for the one card that holds a legacy file beside a registry of
\* which only the beginning of the header is there
C14_GarbledRegistryMigrates ==
    (last.op = "boot" /\ prev.files = WriteFile(CardLegacy, CHANGERS_STEM, Garbled)) =>
        SameBoot(prev.files, CardLegacy, CHANGERS_STEM)

---------------------------------------------------------------------------
(* SpecLimits: the slot count at its limits.  The registry on the card     *)
(* gives its one changer MIN_SLOTS or MAX_SLOTS slots, or a count just     *)
(* outside that range, or the changer's slot document declares one.  The   *)
(* presses change the count in Settings and in the changer form.           *)

RegistryCard(total_slots) ==
    CardFile(CHANGERS_STEM, RegistryOf(OneChanger(total_slots), 1))

LimitCards ==
    {RegistryCard(n) : n \in {MIN_SLOTS, MAX_SLOTS, MIN_SLOTS - 1, MAX_SLOTS + 1}}
    \cup {WriteFile(RegistryCard(CardSlots), CHANGER_0,
                    DataText(CollectionOf(NoCDs, n))) : n \in {MIN_SLOTS - 1, MAX_SLOTS + 1}}

InitLimits ==
    /\ phase = "boot"
    /\ app = ZeroApp
    /\ files \in LimitCards
    /\ last = NoStep
    /\ prev = [app |-> app, files |-> files]

\* a count from which one press reaches or would pass a limit
NearLimit(total_slots) ==
    total_slots <= MIN_SLOTS + 1 \/ total_slots >= MAX_SLOTS - 1

\* the main menu is walked down to Settings and to Changers
LimitsMenuPress(key) ==
    \/ key = "Down" /\ app.selected_index < 4
    \/ key = "Ok" /\ app.selected_index \in {2, 4}

LimitsSettingsPress(key, is_long_press) ==
    IF app.editing_slot_count
    THEN \/ key \in {"Up", "Down"} /\ ~is_long_press /\ NearLimit(app.total_slots)
         \/ key = "Back"
    ELSE key \in {"Ok", "Back"} /\ ~is_long_press

\* the changer form: left out of the name to Save, up to the slot count,
\* the count changed, and Save
LimitsFormPress(key) ==
    CASE app.edit_changer_field = CHANGER_FIELD_NAME -> key \in {"Left", "Back"}
      [] app.edit_changer_field = CHANGER_FIELD_SAVE -> key \in {"Up", "Ok"}
      [] app.edit_changer_field = CHANGER_FIELD_SLOTS ->
             (key \in {"Up", "Down"} /\ NearLimit(app.edit_changer.total_slots)) \/ key = "Ok"
      [] OTHER -> FALSE

NextLimits ==
    \/ Boot(TRUE)
    \/ SplashTimeout
    \/ \E key \in {"Down", "Ok"} : LimitsMenuPress(key) /\ InputMainMenu(key, FALSE)
    \/ \E key \in {"Up", "Down", "Ok", "Back"}, is_long_press \in BOOLEAN :
           LimitsSettingsPress(key, is_long_press) /\ InputSettings(key, is_long_press, TRUE)
    \/ InputChangers("Ok", TRUE)
    \/ InputChangers("Back", FALSE)
    \/ \E key \in {"Up", "Down", "Left", "Ok", "Back"} :
           LimitsFormPress(key) /\ InputAddEditChanger(key, TRUE)

SpecLimits == InitLimits /\ [][NextLimits]_vars

InRange(total_slots) == total_slots >= MIN_SLOTS /\ total_slots <= MAX_SLOTS

SlotCountEdited(key) ==
    /\ last.op = "VIEW_SETTINGS" /\ last.key = key /\ prev.app.editing_slot_count

FormCountEdited(key) ==
    /\ last.op = "VIEW_ADD_EDIT_CHANGER" /\ last.key = key
    /\ prev.app.edit_changer_field = CHANGER_FIELD_SLOTS

\* C15: once the application has started, total_slots and the slot count of
\* every changer of the registry, and of the changer in the form, lie in
\* [MIN_SLOTS, MAX_SLOTS]; Down at MIN_SLOTS leaves the count at MIN_SLOTS
\* and Up at MAX_SLOTS leaves it at MAX_SLOTS, in Settings and in the slot
\* count field of the changer form.
C15_SlotCountInRange ==
    phase # "boot" =>
        /\ InRange(app.total_slots)
        /\ \A i \in 0..(app.changer_count - 1) : InRange(app.changers[i].total_slots)
        /\ app.current_view = "VIEW_ADD_EDIT_CHANGER" => InRange(app.edit_changer.total_slots)
        /\ (SlotCountEdited("Down") /\ prev.app.total_slots = MIN_SLOTS)
               => app.total_slots = MIN_SLOTS
        /\ (SlotCountEdited("Up") /\ prev.app.total_slots = MAX_SLOTS)
               => app.total_slots = MAX_SLOTS
        /\ (FormCountEdited("Down") /\ prev.app.edit_changer.total_slots = MIN_SLOTS)
               => app.edit_changer.total_slots = MIN_SLOTS
        /\ (FormCountEdited("Up") /\ prev.app.edit_changer.total_slots = MAX_SLOTS)
               => app.edit_changer.total_slots = MAX_SLOTS

\* Down was pressed in Settings with the count at MIN_SLOTS
C15_Witness ==
    /\ SlotCountEdited("Down")
    /\ prev.app.total_slots = MIN_SLOTS
    /\ app.total_slots = MIN_SLOTS
    /\ app.changers[0].total_slots = MIN_SLOTS


---------------------------------------------------------------------------
(* SpecForms: the text fields of the two forms.  The CD form is opened on  *)
(* the CD of the card, the changer form on the changer of the registry;    *)
(* the presses move the cursor and the palette and type nothing.           *)

\* the main menu opens the slot list or the changer list
FormsMenuPress(key) == key = "Ok" => app.selected_index \in {0, 4}

\* the slot list opens the details of a resident CD
FormsListPress(key) ==
    key = "Ok" =>
        /\ flipchanger_get_slot(app, app.selected_index) # -1
        /\ app.slots[flipchanger_get_slot(app, app.selected_index)].occupied

\* the changer form: the four directions in Name and Location, on from
\* Slots, and up or down from Save
TextFormPress(key) ==
    CASE app.edit_changer_field \in {CHANGER_FIELD_NAME, CHANGER_FIELD_LOCATION} ->
             key \in {"Up", "Down", "Left", "Right"}
      [] app.edit_changer_field = CHANGER_FIELD_SLOTS -> key = "Ok"
      [] OTHER -> key \in {"Up", "Down"}

NextForms ==
    \/ Boot(TRUE)
    \/ SplashTimeout
    \/ \E key \in {"Down", "Ok"} : FormsMenuPress(key) /\ InputMainMenu(key, FALSE)
    \/ \E key \in {"Down", "Ok"} : FormsListPress(key) /\ InputSlotList(key, FALSE, TRUE)
    \/ DetailsPress("Ok") /\ InputSlotDetails("Ok", TRUE)
    \/ \E key \in {"Up", "Down", "Left", "Right"} : InputAddEditCD(key, FALSE, TRUE)
    \/ app.selected_index = 0 /\ InputChangers("Ok", TRUE)
    \/ \E key \in {"Up", "Down", "Left", "Right", "Ok"} :
           TextFormPress(key) /\ InputAddEditChanger(key, TRUE)

SpecForms == Init /\ [][NextForms]_vars

\* the step was Up in a text field of the CD form
UpInCdText ==
    /\ last.op = "VIEW_ADD_EDIT_CD" /\ last.key = "Up"
    /\ prev.app.edit_field \in TextFields
    /\ flipchanger_get_slot(prev.app, prev.app.current_slot_index) # -1

\* the step was Up in Name or Location of the changer form
UpInChangerText ==
    /\ last.op = "VIEW_ADD_EDIT_CHANGER" /\ last.key = "Up"
    /\ prev.app.edit_changer_field \in {CHANGER_FIELD_NAME, CHANGER_FIELD_LOCATION}

\* the field did not change and the palette moved
PaletteRotated ==
    /\ app.edit_field = prev.app.edit_field
    /\ app.edit_changer_field = prev.app.edit_changer_field
    /\ app.edit_char_selection # prev.app.edit_char_selection

\* another field is edited and the palette did not move
FieldSwitched ==
    /\ app.edit_char_selection = prev.app.edit_char_selection
    /\ IF last.op = "VIEW_ADD_EDIT_CD" THEN app.edit_field # prev.app.edit_field
       ELSE app.edit_changer_field # prev.app.edit_changer_field

\* what Up does by the cursor and the palette it is pressed at
UpSwitchesOrRotates ==
    /\ (prev.app.edit_char_pos = 0 /\ prev.app.edit_char_selection = 0) => FieldSwitched
    /\ (prev.app.edit_char_pos = 1 /\ prev.app.edit_char_selection = 0) => PaletteRotated

\* C16: in every text field editor (the text fields of the CD form, Name
\* and Location of the changer form), Up with the cursor at 0 and the
\* palette at 0 switches to another field and leaves the palette alone;
\* Up after the cursor moved right by one rotates the palette and keeps
\* the field.
C16_UpInTextFields ==
    (UpInCdText \/ UpInChangerText) => UpSwitchesOrRotates

\* the same for the text fields of the CD form alone
C16_UpInCdForm ==
    UpInCdText => UpSwitchesOrRotates

\* Up was pressed in the artist field with the cursor behind its letter
C16_CdFormRotated ==
    /\ UpInCdText /\ prev.app.edit_field = "FIELD_ARTIST"
    /\ prev.app.edit_char_pos = 1 /\ prev.app.edit_char_selection = 0


---------------------------------------------------------------------------
(* SpecFaults: the card stops answering once the application has started.  *)
(* Every file opened after the start-up fails to open; the presses are     *)
(* those of the slot screens, of Settings, and the way out.                *)

\* the main menu opens the slot list or Settings
FaultsMenuPress(key) == key = "Ok" => app.selected_index \in {0, 2}

\* Settings: into the editing of the slot count, one slot more, and the
\* long Back that persists the count
FaultsSettingsPress(key, is_long_press) ==
    IF app.editing_slot_count
    THEN \/ key = "Up" /\ ~is_long_press /\ app.total_slots < MaxSlotCount
         \/ key = "Back" /\ is_long_press
    ELSE key = "Ok" /\ ~is_long_press

NextFaults ==
    \/ Boot(TRUE)
    \/ SplashTimeout
    \/ \E key \in {"Down", "Ok", "Back"} : FaultsMenuPress(key) /\ InputMainMenu(key, FALSE)
    \/ \E is_long_press \in BOOLEAN : InputSlotList("Down", is_long_press, FALSE)
    \/ \E key \in {"Ok", "Back"} : InputSlotList(key, FALSE, FALSE)
    \/ \E key \in {"Ok", "Back"} : DetailsPress(key) /\ InputSlotDetails(key, FALSE)
    \/ \E key \in Keys, is_long_press \in BOOLEAN :
           CdFormPress(key, is_long_press) /\ InputAddEditCD(key, is_long_press, FALSE)
    \/ \E key \in {"Ok", "Up", "Back"}, is_long_press \in BOOLEAN :
           FaultsSettingsPress(key, is_long_press) /\ InputSettings(key, is_long_press, FALSE)
    \/ Cleanup(FALSE)

SpecFaults == Init /\ [][NextFaults]_vars

\* Save was pressed in the CD form
SaveFromCdForm ==
    /\ last.op = "VIEW_ADD_EDIT_CD" /\ last.key = "Ok"
    /\ prev.app.edit_field = "FIELD_SAVE"
    /\ flipchanger_get_slot(prev.app, prev.app.current_slot_index) # -1

\* the window was moved with unsaved changes in it
SaveFromShift ==
    /\ UpdateCacheCalled
    /\ prev.app.dirty
    /\ NewCacheStart(prev.app, last.index) # prev.app.cache_start_index

\* the slot count was persisted from Settings
SaveFromSettings ==
    /\ last.op = "VIEW_SETTINGS" /\ last.key = "Back" /\ last.long
    /\ prev.app.editing_slot_count /\ prev.app.dirty

\* the application ended with unsaved changes
SaveFromCleanup == last.op = "cleanup" /\ prev.app.dirty

\* the step wrote nothing to the card
NothingWritten == phase # "boot" /\ last.op # "boot" /\ files = prev.files

\* the slots are those before the step and are still marked unsaved
KeptForRetry == app.dirty /\ app.slots = prev.app.slots

\* C17: when the slot document cannot be written, every caller of
\* flipchanger_save_data (Save of the CD form, a move of the window,
\* the persist of Settings, the exit) leaves the slots in memory as they
\* were and the dirty flag set.
C17_FailedSaveKeepsSlots ==
    (NothingWritten
     /\ (SaveFromCdForm \/ SaveFromShift \/ SaveFromSettings \/ SaveFromCleanup))
    => KeptForRetry

\* the same for Save of the CD form and for the exit alone
C17_FormAndExitKeep ==
    (NothingWritten /\ (SaveFromCdForm \/ SaveFromCleanup)) => KeptForRetry

\* the same for the move of the window alone
C17_ShiftKeeps ==
    (NothingWritten /\ SaveFromShift) => KeptForRetry

\* Save was pressed in the CD form and nothing was written
C17_FormSaveFailed == NothingWritten /\ SaveFromCdForm


---------------------------------------------------------------------------
(* The exit.  phase is "done" once the view port is freed and the records  *)
(* of the GUI and of the storage are closed (lines 2835-2856); prev is the *)
(* application as the loop left it.                                        *)

\* the slot document of the current changer holds what was resident
SlotsFlushed ==
    /\ flipchanger_get_slots_path(prev.app) \in DOMAIN files
    /\ files[flipchanger_get_slots_path(prev.app)] = DataText(prev.app)
    /\ \A k \in 0..(SLOT_CACHE_SIZE - 1) :
           (prev.app.slots[k].occupied /\ prev.app.cache_start_index + k < prev.app.total_slots)
           => DocOccupied(files[flipchanger_get_slots_path(prev.app)],
                          prev.app.slots[k].slot_number - 1)

\* the registry file holds the changers and the identifier of the current one
RegistryFlushed ==
    /\ CHANGERS_STEM \in DOMAIN files
    /\ files[CHANGERS_STEM] = RegistryText(prev.app)
    /\ Strstr(files[CHANGERS_STEM], 1, prev.app.current_changer_id) # 0

---------------------------------------------------------------------------
(* SpecSwitch: the deferred switch of the changer.  The card holds two     *)
(* changers, the second in use, each with a CD in its slot document.  The  *)
(* presses open Settings and the changer list and select a changer; the    *)
(* main loop serves the switch once in 100 ms for as long as running is    *)
(* set (lines 2795-2808); a press handled between two rounds of the loop   *)
(* is a step taken before the switch.                                      *)

SwitchCard ==
    WriteFile(WriteFile(CardTwoChangers,
                        MintedChangers[0].id,
                        DataText(CollectionOf([i \in {2} |-> PlainCD], CardSlots))),
              MintedChangers[1].id,
              DataText(CollectionOf([i \in {5} |-> PlainCD], CardSlots)))

InitSwitch ==
    /\ phase = "boot"
    /\ app = ZeroApp
    /\ files = SwitchCard
    /\ last = NoStep
    /\ prev = [app |-> app, files |-> files]

\* the main menu opens Settings or the changer list
SwitchMenuPress(key) == key = "Ok" => app.selected_index \in {2, 4}

\* Settings: into the editing of the slot count, one slot more, and out
\* with a short Back that persists nothing
SwitchSettingsPress(key) ==
    \/ key = "Ok" /\ ~app.editing_slot_count
    \/ key = "Up" /\ app.editing_slot_count /\ app.total_slots < MaxSlotCount
    \/ key = "Back"

\* the changer list: down the rows and a short Ok on a changer
SwitchListPress(key) == key = "Ok" => app.selected_index < app.changer_count

\* the step was the short Ok on a changer of the list
ChangerSelected ==
    /\ last.op = "VIEW_CHANGERS" /\ last.key = "Ok" /\ ~last.long
    /\ prev.app.selected_index >= 0 /\ prev.app.selected_index < prev.app.changer_count

\* one press at most is handled between the selection of a changer and
\* the round of the loop that serves it
PressInTime == app.pending_changer_switch => ChangerSelected

NextSwitch ==
    \/ Boot(TRUE)
    \/ SplashTimeout
    \/ \E key \in {"Down", "Ok", "Back"} :
           PressInTime /\ SwitchMenuPress(key) /\ InputMainMenu(key, FALSE)
    \/ \E key \in {"Ok", "Up", "Back"} :
           PressInTime /\ SwitchSettingsPress(key) /\ InputSettings(key, FALSE, TRUE)
    \/ \E key \in {"Down", "Ok"} :
           PressInTime /\ SwitchListPress(key) /\ InputChangers(key, FALSE)
    \/ ChangerSwitch(TRUE)
    \/ Cleanup(TRUE)

SpecSwitch == InitSwitch /\ [][NextSwitch]_vars

\* the handler records the changer and the flag; it reads no slots and
\* writes nothing
C19_HandlerOnlyRecords ==
    ChangerSelected =>
        /\ app.current_changer_index = prev.app.selected_index
        /\ app.current_changer_id = prev.app.changers[prev.app.selected_index].id
        /\ app.pending_changer_switch
        /\ app.slots = prev.app.slots
        /\ files = prev.files

\* the loop step that finds the flag reads the slots of the selected
\* changer, writes the registry and clears the flag
C19_TickSwitches ==
    last.op = "changer_switch" =>
        /\ ~app.pending_changer_switch
        /\ \A k \in 0..(SLOT_CACHE_SIZE - 1) :
               app.slots[k].occupied <=> DocOccupied(prev.files[app.current_changer_id], k)
        /\ files[CHANGERS_STEM] = RegistryText(app)
        /\ Strstr(files[CHANGERS_STEM], 1, app.current_changer_id) # 0

\* no flag is left set when the application has ended: after the exit
\* no step follows that could clear it
C19_FlagClearedByExit ==
    phase = "done" => ~app.pending_changer_switch

\* C19: the short Ok on a changer of the list only records the changer
\* and sets pending_changer_switch; a later step of the main loop reads
\* the slots of that changer, writes the registry and clears the flag;
\* every flag that is set is cleared before the application ends.
C19_DeferredSwitch ==
    /\ C19_HandlerOnlyRecords
    /\ C19_TickSwitches
    /\ C19_FlagClearedByExit

\* when the application has ended, the slot document of each changer marks
\* the slots it marked on the card it started from
C19_ExitKeepsDocuments ==
    phase = "done" =>
        \A i \in 0..1, p \in 0..(CardSlots - 1) :
            DocOccupied(files[MintedChangers[i].id], p)
            <=> DocOccupied(SwitchCard[MintedChangers[i].id], p)


---------------------------------------------------------------------------
(* The presses that end the loop.                                          *)

\* the step cleared running
LoopStopped == prev.app.running /\ ~app.running

\* the step was Back in the main menu, in Settings outside the editing of
\* the slot count, or in Statistics
BackInExitView ==
    /\ last.key = "Back"
    /\ \/ last.op \in {"VIEW_MAIN_MENU", "VIEW_STATISTICS"}
       \/ last.op = "VIEW_SETTINGS" /\ ~prev.app.editing_slot_count

\* C20: running is cleared only by a long press of Back in the main menu,
\* in Settings outside the editing of the slot count, or in Statistics.
C20_OnlyLongBackStops ==
    LoopStopped => (BackInExitView /\ last.long)

\* the same with the press in the main menu of any duration
C20_OnlyBackStops ==
    LoopStopped => (BackInExitView /\ (last.op # "VIEW_MAIN_MENU" => last.long))


---------------------------------------------------------------------------
(* flipchanger_draw_callback (flipchanger.c 1127-1183) and the draw        *)
(* functions it calls.  What is put on the canvas is left out; each        *)
(* function is the application and the card it leaves behind.              *)

\* const int32_t VISIBLE_CHARS = 12 (line 1444)
VISIBLE_CHARS == 12

\* the auto-scroll of the selected text field (lines 1452-1475)
AutoScroll(edit_char_pos, edit_field_scroll, value_len) ==
    LET scrolled ==
            IF edit_char_pos < edit_field_scroll THEN edit_char_pos
            ELSE IF edit_char_pos >= edit_field_scroll + VISIBLE_CHARS
            THEN edit_char_pos - VISIBLE_CHARS + 1
            ELSE IF edit_char_pos = edit_field_scroll + VISIBLE_CHARS - 1
                    /\ edit_char_pos < value_len /\ value_len > VISIBLE_CHARS
            THEN edit_char_pos - VISIBLE_CHARS + 2
            ELSE edit_field_scroll
        max_scroll == IF value_len > VISIBLE_CHARS THEN value_len - VISIBLE_CHARS ELSE 0
    IN  Min(Max(scrolled, 0), max_scroll)

\* the selected text field is drawn (lines 1446-1476); the terminator
\* written at value[max_len - 1] (line 1435) leaves every string as it is
DrawSelectedText(a, slot) ==
    LET value_len == Len(FieldText(a.slots[slot].cd, a.edit_field))
        edit_char_pos == Min(a.edit_char_pos, value_len)
    IN  [a EXCEPT !.edit_char_pos = edit_char_pos,
                  !.edit_field_scroll = AutoScroll(edit_char_pos, a.edit_field_scroll,
                                                   value_len)]

flipchanger_draw_add_edit(a, f) ==
    IF a.current_slot_index < 0 \/ a.current_slot_index >= a.total_slots
       \/ flipchanger_get_slot(a, a.current_slot_index) = -1
    THEN Ret(a, f)
    ELSE LET a1 == [a EXCEPT !.edit_char_pos = Max(a.edit_char_pos, 0)]
         IN  IF a1.edit_field \in TextFields
             THEN Ret(DrawSelectedText(a1, flipchanger_get_slot(a, a.current_slot_index)), f)
             ELSE Ret(a1, f)

flipchanger_draw_track_management(a, f) ==
    IF a.current_slot_index < 0 \/ a.current_slot_index >= a.total_slots
       \/ flipchanger_get_slot(a, a.current_slot_index) = -1
    THEN Ret(a, f)
    ELSE LET slot == flipchanger_get_slot(a, a.current_slot_index)
             track_count == Min(Max(a.slots[slot].cd.track_count, 0), MAX_TRACKS)
             selected == Max(a.edit_selected_track, 0)
         IN  Ret([a EXCEPT !.slots[slot].cd.track_count = track_count,
                           !.edit_selected_track =
                               IF track_count > 0 /\ selected >= track_count
                               THEN track_count - 1 ELSE selected], f)

\* a list drawn after moving the window to the selected row, which the
\* comment on flipchanger_update_cache forbids
DrawSlotListShifting(a, f) == flipchanger_update_cache(a, f, TRUE, a.selected_index)

\* the rows are read with flipchanger_get_slot; a row outside the window
\* is drawn as empty (lines 970-980)
flipchanger_draw_slot_list(a, f) == Ret(a, f)

flipchanger_draw_callback(a, f) ==
    IF ~a.running THEN Ret(a, f)
    ELSE CASE a.current_view = "VIEW_SLOT_LIST" -> flipchanger_draw_slot_list(a, f)
           [] a.current_view = "VIEW_ADD_EDIT_CD" -> flipchanger_draw_add_edit(a, f)
           [] a.current_view = "VIEW_TRACK_MANAGEMENT" ->
                  flipchanger_draw_track_management(a, f)
           [] OTHER -> Ret(a, f)

\* the GUI asks for the screen
Draw ==
    /\ phase = "loop"
    /\ UNCHANGED phase
    /\ Step(flipchanger_draw_callback(app, files), "draw", "none", FALSE, -1)

---------------------------------------------------------------------------
(* SpecDraw: the slot screens with the screen drawn between the presses.   *)
(* The CD of the card has an artist longer than the text the form shows.   *)

\* the length of the artist of the CD that is drawn
DrawnTextLen == 13

DrawnCD == [PlainCD EXCEPT !.artist = LongText(DrawnTextLen)]

CardDrawn ==
    WriteFile(CardFile(CHANGERS_STEM, RegistryOf(OneChanger(CardSlots), 1)),
              CHANGER_0, DataText(CollectionOf([i \in {5} |-> DrawnCD], CardSlots)))

InitDraw ==
    /\ phase = "boot"
    /\ app = ZeroApp
    /\ files = CardDrawn
    /\ last = NoStep
    /\ prev = [app |-> app, files |-> files]

\* the CD form: along the artist, or from its start down the fields, into
\* the tracks and out
DrawFormPress(key) ==
    CASE app.edit_field = "FIELD_ARTIST" ->
             key = "Right" \/ (key \in {"Down", "Back"} /\ app.edit_char_pos = 0)
      [] app.edit_field = "FIELD_TRACKS" -> key \in {"Ok", "Back"}
      [] OTHER -> key = "Down"

\* a press is followed by a draw before the next press
Drawn == last.op \in {"draw", "boot", "splash_timeout"}

NextDraw ==
    \/ Boot(TRUE)
    \/ SplashTimeout
    \/ \E key \in {"Ok", "Back"} :
           Drawn /\ app.selected_index = 0 /\ InputMainMenu(key, FALSE)
    \/ \E key \in {"Down", "Ok", "Back"} : Drawn /\ InputSlotList(key, FALSE, TRUE)
    \/ \E key \in {"Ok", "Back"} : Drawn /\ DetailsPress(key) /\ InputSlotDetails(key, TRUE)
    \/ \E key \in {"Right", "Down", "Ok", "Back"} :
           Drawn /\ DrawFormPress(key) /\ InputAddEditCD(key, FALSE, TRUE)
    \/ \E key \in {"Down", "Back"} : Drawn /\ InputTrackManagement(key, FALSE)
    \/ ~Drawn /\ Draw

SpecDraw == InitDraw /\ [][NextDraw]_vars

\* the step was a draw
DrawStep == last.op = "draw"

\* C21: no draw, in any view, moves the cache window or touches the card:
\* the files, the start of the window and the slot each cache entry holds
\* are those before the draw.
C21_DrawKeepsWindowAndCard ==
    DrawStep =>
        /\ files = prev.files
        /\ app.cache_start_index = prev.app.cache_start_index
        /\ \A k \in 0..(SLOT_CACHE_SIZE - 1) :
               /\ app.slots[k].slot_number = prev.app.slots[k].slot_number
               /\ app.slots[k].occupied = prev.app.slots[k].occupied

\* the slot list was drawn with its selected row outside the window
C21_Witness ==
    /\ DrawStep /\ app.running
    /\ app.current_view = "VIEW_SLOT_LIST"
    /\ flipchanger_get_slot(app, app.selected_index) = -1

\* C22: no draw changes any field of the application.
C22_DrawKeepsState ==
    DrawStep => app = prev.app

\* the same for every view but the CD form
C22_OtherViewsKeepState ==
    (DrawStep /\ app.current_view # "VIEW_ADD_EDIT_CD") => app = prev.app


---------------------------------------------------------------------------
(* The row opened from the slot list.                                      *)

\* the step was Ok on a row of the slot list
ListRowOpened ==
    /\ last.op = "VIEW_SLOT_LIST" /\ last.key = "Ok"
    /\ prev.app.selected_index >= 0 /\ prev.app.selected_index < prev.app.total_slots

\* C24: Ok on row s of the slot list opens the details with
\* current_slot_index = s and slot s resident in the cache window.
C24_DetailsOfSelectedRow ==
    ListRowOpened =>
        /\ app.current_view = "VIEW_SLOT_DETAILS"
        /\ app.current_slot_index = prev.app.selected_index
        /\ flipchanger_get_slot(app, prev.app.selected_index) # -1

\* the same for the rows that need no move of the window
C24_RowInWindow ==
    (ListRowOpened
     /\ NewCacheStart(prev.app, prev.app.selected_index) = prev.app.cache_start_index)
    => /\ app.current_view = "VIEW_SLOT_DETAILS"
       /\ app.current_slot_index = prev.app.selected_index
       /\ flipchanger_get_slot(app, prev.app.selected_index) # -1


---------------------------------------------------------------------------
(* SpecEdits: CDs are opened, typed into and saved.  The card holds one    *)
(* changer with a CD in its first and in its sixth slot; the presses walk  *)
(* the slot list, open the details and the form of any row, type the       *)
(* letter A into the artist, save, and leave.  Down in the list is pressed  *)
(* on its first row: short to the second row, long to the last.            *)

CardTwoCDs ==
    WriteFile(CardFile(CHANGERS_STEM, RegistryOf(OneChanger(CardSlots), 1)),
              CHANGER_0, DataText(CollectionOf([i \in {0, 5} |-> PlainCD], CardSlots)))

InitEdits ==
    /\ phase = "boot"
    /\ app = ZeroApp
    /\ files = CardTwoCDs
    /\ last = NoStep
    /\ prev = [app |-> app, files |-> files]

\* the rows of the slot list that are opened: the first with a CD, the
\* second without, and the last, which lies beyond the first window
EditedRows == {0, 1, CardSlots - 1}

\* the artist typed into is that of the first slot and shorter than two
\* letters, and nothing has been saved yet
ShortArtist ==
    /\ app.current_slot_index = 0
    /\ flipchanger_get_slot(app, 0) # -1
    /\ Len(app.slots[flipchanger_get_slot(app, 0)].cd.artist) < 2
    /\ files = CardTwoCDs

\* the CD form: A typed into the artist, from its start down the fields to
\* Save, pressed once, and out
EditsFormPress(key) ==
    CASE app.edit_field = "FIELD_ARTIST" ->
             \/ key = "Ok" /\ app.edit_char_selection = 0 /\ ShortArtist
             \/ key = "Down" /\ app.edit_char_pos = 0 /\ app.edit_char_selection = 0
             \/ key = "Back"
      [] app.edit_field = "FIELD_SAVE" -> key = "Back" \/ (key = "Ok" /\ files = CardTwoCDs)
      [] OTHER -> key = "Down"

NextEdits ==
    \/ Boot(TRUE)
    \/ SplashTimeout
    \/ \E key \in {"Ok", "Back"} : app.selected_index = 0 /\ InputMainMenu(key, FALSE)
    \/ \E is_long_press \in BOOLEAN :
           app.selected_index = 0 /\ InputSlotList("Down", is_long_press, TRUE)
    \/ \E key \in {"Ok", "Back"} :
           (key = "Ok" => app.selected_index \in EditedRows) /\ InputSlotList(key, FALSE, TRUE)
    \/ \E key \in {"Ok", "Back"} : InputSlotDetails(key, TRUE)
    \/ \E key \in {"Ok", "Down", "Back"} :
           EditsFormPress(key) /\ InputAddEditCD(key, FALSE, TRUE)
    \/ Cleanup(TRUE)

SpecEdits == InitEdits /\ [][NextEdits]_vars

\* the step typed into or deleted from a text field of the CD form
TextEdited ==
    /\ last.op = "VIEW_ADD_EDIT_CD" /\ last.key = "Ok"
    /\ prev.app.edit_field \in TextFields
    /\ app.slots # prev.app.slots

\* the document holds the slot as it would be written now
Holds(doc, slot) == Strstr(doc, 1, SlotText(slot)) # 0

\* the slot on screen is resident and the slot document of the current
\* changer does not hold it as it is in memory
ResidentDiffers ==
    /\ phase = "loop"
    /\ SlotsPath \in DOMAIN files
    /\ flipchanger_get_slot(app, app.current_slot_index) # -1
    /\ ~Holds(files[SlotsPath], app.slots[flipchanger_get_slot(app, app.current_slot_index)])

\* every edit of a text field sets dirty
C23_TextEditSetsDirty == TextEdited => app.dirty

\* the first slot, resident when the loop ended, is in the slot document
\* as it was in memory once the application has ended
C23_ExitSavesFirstSlot ==
    (phase = "done" /\ prev.app.cache_start_index = 0) =>
        /\ flipchanger_get_slots_path(prev.app) \in DOMAIN files
        /\ Holds(files[flipchanger_get_slots_path(prev.app)], prev.app.slots[0])

\* C23: whenever the resident slot on screen differs from what the slot
\* document of the current changer holds for it, dirty is set; every edit
\* of a text field of a CD sets dirty, so that leaving the field and the
\* application saves it.
C23_UnsavedIsDirty ==
    /\ ResidentDiffers => app.dirty
    /\ C23_TextEditSetsDirty

---------------------------------------------------------------------------
(* The form opened from the slot details.                                  *)

\* the step was Ok in the slot details
FormOpenedFromDetails == last.op = "VIEW_SLOT_DETAILS" /\ last.key = "Ok"

\* the application once the slot of the form is made resident (line 1254),
\* before the form touches it
SlotMadeResident ==
    flipchanger_update_cache(FormOpened(prev.app, prev.app.current_slot_index),
                             prev.files, TRUE, prev.app.current_slot_index).app

\* the cache entry of the slot of the form, -1 when it is not resident
FormEntry == flipchanger_get_slot(app, prev.app.current_slot_index)

\* C27: Ok in the slot details opens the form of an occupied slot without
\* clearing or altering its CD: the entry of a slot that is occupied when
\* made resident is after the step what it was then; only an unoccupied
\* slot is initialised as a new CD.
C27_OpeningKeepsStoredCD ==
    (FormOpenedFromDetails /\ FormEntry # -1 /\ SlotMadeResident.slots[FormEntry].occupied)
    => app.slots[FormEntry] = SlotMadeResident.slots[FormEntry]

\* the same when the details showed the slot resident
C27_OpeningKeepsShownCD ==
    (FormOpenedFromDetails /\ FormEntry # -1
     /\ flipchanger_get_slot(prev.app, prev.app.current_slot_index) # -1
     /\ SlotMadeResident.slots[FormEntry].occupied)
    => app.slots[FormEntry] = SlotMadeResident.slots[FormEntry]

\* the form of an occupied resident slot was opened
C27_ShownOpened ==
    /\ FormOpenedFromDetails /\ FormEntry # -1
    /\ flipchanger_get_slot(prev.app, prev.app.current_slot_index) # -1
    /\ SlotMadeResident.slots[FormEntry].occupied

---------------------------------------------------------------------------
(* Slots that become occupied.                                             *)

\* the step was Save in the CD form of slot index p
SavePressedFor(p) ==
    /\ last.op = "VIEW_ADD_EDIT_CD" /\ last.key = "Ok"
    /\ prev.app.edit_field = "FIELD_SAVE"
    /\ prev.app.current_slot_index = p

\* cache entry k held an unoccupied slot and holds the same slot occupied
BecameOccupied(k) ==
    /\ app.cache_start_index = prev.app.cache_start_index
    /\ app.slots[k].slot_number = prev.app.slots[k].slot_number
    /\ ~prev.app.slots[k].occupied
    /\ app.slots[k].occupied

\* the slot document marks position p and did not before the step
NewlyStored(p) ==
    /\ phase # "boot" /\ last.op # "boot"
    /\ flipchanger_get_slots_path(prev.app) \in DOMAIN prev.files
    /\ SlotsPath \in DOMAIN files
    /\ DocOccupied(files[SlotsPath], p)
    /\ ~DocOccupied(prev.files[flipchanger_get_slots_path(prev.app)], p)

\* C28: a slot becomes occupied, in memory and in the slot document, only
\* by Save pressed in its CD form; a form opened on an unoccupied slot and
\* left with Back leaves it unoccupied.
C28_OccupiedOnlyBySave ==
    /\ \A k \in 0..(SLOT_CACHE_SIZE - 1) :
           BecameOccupied(k) => SavePressedFor(app.cache_start_index + k)
    /\ \A p \in 0..(CardSlots - 1) : NewlyStored(p) => SavePressedFor(p)

\* the part of it about the slot document
C28_StoredOnlyBySave ==
    \A p \in 0..(CardSlots - 1) : NewlyStored(p) => SavePressedFor(p)


---------------------------------------------------------------------------
(* The slots of one changer and the documents of the others.               *)

\* the step was the round of the loop that serves a switch; the changer
\* left is the one the registry file named before it, the handler having
\* written nothing
SwitchServed == last.op = "changer_switch"
ChangerLeft == StoredLastUsedId(prev.files)

\* the record of the changer left, as resident before the round
RecordLeft ==
    prev.app.changers[CHOOSE i \in 0..(prev.app.changer_count - 1) :
                          prev.app.changers[i].id = ChangerLeft]

\* what flipchanger_save_data writes for the resident slots as slots of
\* the changer left
TextLeft == DataText([prev.app EXCEPT !.total_slots = RecordLeft.total_slots])

\* the changer served is another than the one left, with unsaved changes
DirtySwitch ==
    /\ SwitchServed
    /\ prev.app.dirty
    /\ ChangerLeft # prev.app.current_changer_id
    /\ \E i \in 0..(prev.app.changer_count - 1) : prev.app.changers[i].id = ChangerLeft

\* C25: when a switch is served while the resident slots of the changer
\* left are dirty, they are in that changer's slot document after the
\* round that replaces them.
C25_DirtySavedBeforeSwitch ==
    DirtySwitch =>
        /\ flipchanger_get_slots_path([prev.app EXCEPT !.current_changer_id = ChangerLeft])
               \in DOMAIN files
        /\ files[flipchanger_get_slots_path([prev.app EXCEPT !.current_changer_id = ChangerLeft])]
               = TextLeft

\* the round itself writes no slot document at all
C25_SwitchWritesNoSlots ==
    SwitchServed =>
        \A i \in 0..1 : files[MintedChangers[i].id] = prev.files[MintedChangers[i].id]

\* C26: in every state, whatever the order of presses, rounds of the loop
\* and the exit, a slot that the slot document of a changer marks is one
\* that changer's document marked on the card: no slot of one changer is
\* written into the document of another.
C26_NoForeignSlots ==
    \A i \in 0..1, p \in 0..(CardSlots - 1) :
        (MintedChangers[i].id \in DOMAIN files /\ DocOccupied(files[MintedChangers[i].id], p))
        => DocOccupied(SwitchCard[MintedChangers[i].id], p)

\* the same while the loop runs
C26_LoopKeepsDocuments ==
    phase # "done" =>
        \A i \in 0..1, p \in 0..(CardSlots - 1) :
            (MintedChangers[i].id \in DOMAIN files /\ DocOccupied(files[MintedChangers[i].id], p))
            => DocOccupied(SwitchCard[MintedChangers[i].id], p)


---------------------------------------------------------------------------
(* SpecSettings: the slot count edited in Settings.  The card holds one    *)
(* changer with a CD in its sixth slot.  The main menu is walked down to   *)
(* Settings; the count is edited one up or one down from what the card     *)
(* gives, and the editing is left with a short or with a long Back.        *)

SettingsMenuPress(key) ==
    \/ key = "Down" /\ app.selected_index < 2
    \/ key = "Ok" /\ app.selected_index = 2
    \/ key = "Back"

SettingsPress(key, is_long_press) ==
    IF app.editing_slot_count
    THEN \/ key = "Up" /\ ~is_long_press /\ app.total_slots < MaxSlotCount
         \/ key = "Down" /\ ~is_long_press /\ app.total_slots >= CardSlots
         \/ key = "Back"
    ELSE key \in {"Ok", "Back"} /\ ~is_long_press

NextSettings ==
    \/ Boot(TRUE)
    \/ SplashTimeout
    \/ \E key \in {"Down", "Ok", "Back"} : SettingsMenuPress(key) /\ InputMainMenu(key, FALSE)
    \/ \E key \in {"Up", "Down", "Ok", "Back"}, is_long_press \in BOOLEAN :
           SettingsPress(key, is_long_press) /\ InputSettings(key, is_long_press, TRUE)
    \/ Cleanup(TRUE)

SpecSettings == Init /\ [][NextSettings]_vars

\* the step was the long Back that persists an edited slot count
CountPersisted ==
    /\ last.op = "VIEW_SETTINGS" /\ last.key = "Back" /\ last.long
    /\ prev.app.editing_slot_count
    /\ prev.app.dirty

\* C29: persisting a slot count from Settings changes the count only:
\* every resident slot keeps its occupied flag and its CD in memory, and
\* every position below the new count that the slot document of the
\* current changer marked is still marked in it.
C29_PersistKeepsSlots ==
    CountPersisted =>
        /\ \A k \in 0..(SLOT_CACHE_SIZE - 1) :
               /\ app.slots[k].occupied = prev.app.slots[k].occupied
               /\ app.slots[k].cd = prev.app.slots[k].cd
        /\ \A p \in 0..(app.total_slots - 1) :
               DocOccupied(prev.files[SlotsPath], p) => DocOccupied(files[SlotsPath], p)

\* the count itself is persisted: the slot document and the registry hold
\* the resident count after the step
C29_CountStored ==
    CountPersisted =>
        /\ flipchanger_load_changers(ZeroApp, files, TRUE).app.changers[0].total_slots
               = app.total_slots
        /\ read_json_int(files[SlotsPath],
                         find_json_key(files[SlotsPath], 1, K_total_slots)).value
               = app.total_slots

\* the step was the short Back that leaves the editing of the slot count
EditCancelled ==
    /\ last.op = "VIEW_SETTINGS" /\ last.key = "Back" /\ ~last.long
    /\ prev.app.editing_slot_count

\* the slot count of the changer in the registry file, and the one in its
\* slot document
RegistryCount(f) == flipchanger_load_changers(ZeroApp, f, TRUE).app.changers[0].total_slots
DocumentCount(f) ==
    read_json_int(f[CHANGER_0], find_json_key(f[CHANGER_0], 1, K_total_slots)).value

\* after a cancelled edit the resident count and the count of the changer
\* record are the ones last persisted, which the editing began with
C30_CancelRestores ==
    EditCancelled =>
        /\ app.total_slots = DocumentCount(files)
        /\ app.changers[app.current_changer_index].total_slots = RegistryCount(files)

\* the exit writes no count that the card did not hold
C30_ExitWritesNoNewCount ==
    (phase = "done" /\ last.op = "cleanup") =>
        /\ DocumentCount(files) = DocumentCount(prev.files)
        /\ RegistryCount(files) = RegistryCount(prev.files)

\* C30: a short Back while the slot count is edited discards the change:
\* total_slots and the slot count of the current changer record are again
\* the persisted ones the editing began with, and what is written
\* afterwards, the exit included, holds no other count.
C30_CancelDiscards ==
    /\ C30_CancelRestores
    /\ C30_ExitWritesNoNewCount

\* a count that was not changed is what it was after the short Back
C30_UneditedCancel ==
    (EditCancelled /\ ~app.dirty) =>
        /\ app.total_slots = DocumentCount(files)
        /\ app.changers[app.current_changer_index].total_slots = RegistryCount(files)


---------------------------------------------------------------------------
(* The slot count saved from the changer form.                             *)

\* the step was Ok on Save in the form of an existing changer with a name
CountSavedInForm ==
    /\ last.op = "VIEW_ADD_EDIT_CHANGER" /\ last.key = "Ok"
    /\ prev.app.edit_changer_field = CHANGER_FIELD_SAVE
    /\ prev.app.edit_changer_index >= 0
    /\ prev.app.edit_changer.name # <<>>

\* Save puts the count of the form into the record, into total_slots of
\* the current changer and into the registry file
C31_SaveStoresCount ==
    CountSavedInForm =>
        /\ app.changers[prev.app.edit_changer_index].total_slots
               = prev.app.edit_changer.total_slots
        /\ app.total_slots = prev.app.edit_changer.total_slots
        /\ RegistryCount(files) = prev.app.edit_changer.total_slots

\* the step was a press in the slot list that loaded the slots anew
SlotsLoadedAnew ==
    /\ last.op = "VIEW_SLOT_LIST"
    /\ UpdateCacheCalled
    /\ app.cache_start_index # prev.app.cache_start_index

\* C31: a slot count saved from the changer form survives a reload: after
\* a step that loads the slots of the changer, the slot count of its record
\* and total_slots are the count the registry file held, which is the one
\* last saved.
C31_SavedCountSurvives ==
    SlotsLoadedAnew =>
        /\ app.total_slots = RegistryCount(prev.files)
        /\ app.changers[app.current_changer_index].total_slots = RegistryCount(prev.files)

\* a load that follows no change of the count keeps it
C31_UnchangedCountSurvives ==
    (SlotsLoadedAnew /\ RegistryCount(prev.files) = CardSlots) =>
        /\ app.total_slots = CardSlots
        /\ app.changers[app.current_changer_index].total_slots = CardSlots


---------------------------------------------------------------------------
(* SpecDelete: changers deleted from a registry of three, the second in    *)
(* use, the second and the third with a CD in their slot documents.  The   *)
(* presses walk to the changer list, open the form of a changer, go left   *)
(* from the name to Delete and confirm or cancel.                          *)

CardThreeChangers ==
    WriteFile(WriteFile(CardFile(CHANGERS_STEM, RegistryWith(3, 1)),
                        MintedChangers[1].id,
                        DataText(CollectionOf([i \in {5} |-> PlainCD], CardSlots))),
              MintedChangers[2].id,
              DataText(CollectionOf([i \in {2} |-> PlainCD], CardSlots)))

InitDelete ==
    /\ phase = "boot"
    /\ app = ZeroApp
    /\ files = CardThreeChangers
    /\ last = NoStep
    /\ prev = [app |-> app, files |-> files]

DeleteListPress(key, is_long_press) ==
    \/ key = "Down" /\ ~is_long_press
    \/ key = "Ok" /\ is_long_press /\ app.selected_index < app.changer_count

DeleteFormPress(key) ==
    CASE app.edit_changer_field = CHANGER_FIELD_NAME -> key \in {"Left", "Back"}
      [] app.edit_changer_field = CHANGER_FIELD_DELETE -> key \in {"Ok", "Back"}
      [] OTHER -> key = "Back"

NextDelete ==
    \/ Boot(TRUE)
    \/ SplashTimeout
    \/ \E key \in {"Down", "Ok"} : ChangersMenuPress(key) /\ InputMainMenu(key, FALSE)
    \/ \E key \in {"Down", "Ok"}, is_long_press \in BOOLEAN :
           DeleteListPress(key, is_long_press) /\ InputChangers(key, is_long_press)
    \/ \E key \in {"Ok", "Left", "Back"} :
           DeleteFormPress(key) /\ InputAddEditChanger(key, TRUE)
    \/ \E key \in {"Ok", "Back"} : InputConfirmDeleteChanger(key, TRUE)

SpecDelete == InitDelete /\ [][NextDelete]_vars

\* the step confirmed the deletion of a changer that is not the current one
OtherDeleted ==
    /\ last.op = "VIEW_CONFIRM_DELETE_CHANGER" /\ last.key = "Ok"
    /\ prev.app.edit_changer_index >= 0 /\ prev.app.changer_count > 1
    /\ prev.app.edit_changer_index # prev.app.current_changer_index

\* the current changer and the resident slots are what they were
CurrentKept ==
    /\ app.current_changer_id = prev.app.current_changer_id
    /\ app.changers[app.current_changer_index].id = prev.app.current_changer_id
    /\ app.slots = prev.app.slots

\* C32: the deletion of a changer other than the current one leaves
\* current_changer_id as it was, current_changer_index at the record with
\* that identifier, and the resident slots those of that changer.
C32_DeleteKeepsCurrent == OtherDeleted => CurrentKept

\* the same for a changer that stands after the current one in the list
C32_DeleteBehindKeepsCurrent ==
    (OtherDeleted /\ prev.app.edit_changer_index > prev.app.current_changer_index)
    => CurrentKept

\* a changer behind the current one was deleted
C32_BehindDeleted ==
    OtherDeleted /\ prev.app.edit_changer_index > prev.app.current_changer_index


---------------------------------------------------------------------------
(* The rows of the changer form as drawn (flipchanger.c 888-893) and as    *)
(* pressed.                                                                *)

\* bool has_delete (lines 889 and 1806)
HasDelete(a) == a.edit_changer_index >= 0 /\ a.changer_count > 1

\* labels[i] of flipchanger_draw_add_edit_changer
ChangerRowLabel(a, i) ==
    CASE i = 0 -> "Name:"
      [] i = 1 -> "Location:"
      [] i = 2 -> "Slots:"
      [] i = 3 -> IF HasDelete(a) THEN "Delete" ELSE "Save"
      [] OTHER -> "Save"

\* the step was Ok in the changer form on the row drawn with the label
OkOnRow(label) ==
    /\ last.op = "VIEW_ADD_EDIT_CHANGER" /\ last.key = "Ok"
    /\ ChangerRowLabel(prev.app, prev.app.edit_changer_field) = label

\* the step persisted the changer of the form and returned to the list
ChangerPersisted ==
    /\ app.current_view = "VIEW_CHANGERS"
    /\ files[CHANGERS_STEM] = RegistryText(app)
    /\ \E i \in 0..(app.changer_count - 1) :
           /\ app.changers[i].name = prev.app.edit_changer.name
           /\ i = (IF prev.app.edit_changer_index >= 0 THEN prev.app.edit_changer_index
                   ELSE prev.app.changer_count)

\* C33: in every state of the changer form, Ok on the row drawn as Save
\* persists the changer when its name is not empty, and Ok on the row
\* drawn as Delete opens the confirmation of the deletion.
C33_LabelNamesAction ==
    /\ (OkOnRow("Save") /\ prev.app.edit_changer.name # <<>>) => ChangerPersisted
    /\ OkOnRow("Delete") => app.current_view = "VIEW_CONFIRM_DELETE_CHANGER"

\* the same where the form has no Delete row
C33_SaveWithoutDelete ==
    (OkOnRow("Save") /\ ~HasDelete(prev.app) /\ prev.app.edit_changer.name # <<>>)
    => ChangerPersisted

\* a changer was saved from a form without a Delete row
C33_SavedWithoutDelete ==
    OkOnRow("Save") /\ ~HasDelete(prev.app) /\ prev.app.edit_changer.name # <<>>


---------------------------------------------------------------------------
(* SpecNumbers: the number fields.  The card holds one CD with the year    *)
(* 19, the disc number 99 and a track of 60 seconds.  The presses walk the *)
(* CD form down to the disc number, the year and the tracks, open the      *)
(* track and its duration, and press Ok and Back in each number field;     *)
(* one of the three numbers is edited in a run.                            *)

NumberedCD == [PlainCD EXCEPT !.year = 19, !.disc_number = 99]

CardNumbered ==
    WriteFile(CardFile(CHANGERS_STEM, RegistryOf(OneChanger(CardSlots), 1)),
              CHANGER_0, DataText(CollectionOf([i \in {0} |-> NumberedCD], CardSlots)))

InitNumbers ==
    /\ phase = "boot"
    /\ app = ZeroApp
    /\ files = CardNumbered
    /\ last = NoStep
    /\ prev = [app |-> app, files |-> files]

\* the CD of the form, resident in the first cache entry
FormCD == app.slots[0].cd

NumbersFormPress(key) ==
    CASE app.edit_field = "FIELD_DISC_NUMBER" ->
             \/ key = "Down"
             \/ key \in {"Ok", "Back"} /\ FormCD.year = NumberedCD.year
                                       /\ FormCD.tracks = NumberedCD.tracks
      [] app.edit_field = "FIELD_YEAR" ->
             \/ key = "Down"
             \/ key \in {"Ok", "Back"} /\ FormCD.disc_number = NumberedCD.disc_number
                                       /\ FormCD.tracks = NumberedCD.tracks
      [] app.edit_field = "FIELD_TRACKS" -> key = "Ok"
      [] app.edit_field = "FIELD_SAVE" -> FALSE
      [] OTHER -> key = "Down" /\ app.edit_char_pos = 0 /\ app.edit_char_selection = 0

\* the track screen: Ok opens the track, a short Back at the start of the
\* title leads to the duration; there the digits 0 and 1 are selected and
\* appended, the cursor is moved right, and Back is pressed
NumbersTrackPress(key) ==
    IF ~app.editing_track THEN key = "Ok"
    ELSE IF app.edit_track_field = "TRACK_FIELD_TITLE"
    THEN key = "Back" /\ app.edit_char_pos = 0
    ELSE /\ FormCD.year = NumberedCD.year
         /\ FormCD.disc_number = NumberedCD.disc_number
         /\ \/ key \in {"Ok", "Back", "Right"}
            \/ key = "Down" /\ app.edit_char_selection = CHAR_DIGIT_FIRST
            \/ key = "Up" /\ app.edit_char_selection = CHAR_DIGIT_FIRST + 1

NextNumbers ==
    \/ Boot(TRUE)
    \/ SplashTimeout
    \/ app.selected_index = 0 /\ InputMainMenu("Ok", FALSE)
    \/ app.selected_index = 0 /\ InputSlotList("Ok", FALSE, TRUE)
    \/ InputSlotDetails("Ok", TRUE)
    \/ \E key \in {"Down", "Ok", "Back"} :
           NumbersFormPress(key) /\ InputAddEditCD(key, FALSE, TRUE)
    \/ \E key \in {"Up", "Down", "Right", "Ok", "Back"} :
           NumbersTrackPress(key) /\ InputTrackManagement(key, FALSE)

SpecNumbers == InitNumbers /\ [][NextNumbers]_vars

\* the CD before the step
FormCDBefore == prev.app.slots[0].cd

\* the seconds a duration text stands for (atoi, 0 for the empty text)
Seconds(duration) == IF Len(duration) > 0 THEN Atoi(duration) ELSE 0

\* the digit the palette selects after the step
SelectedDigit == app.edit_char_selection - CHAR_DIGIT_FIRST

\* a short press of the key in the number field of the CD form
NumberPressed(edit_field, key) ==
    /\ last.op = "VIEW_ADD_EDIT_CD" /\ last.key = key /\ ~last.long
    /\ prev.app.edit_field = edit_field

\* a short press of the key in the duration of a track
DurationPressed(key) ==
    /\ last.op = "VIEW_TRACK_MANAGEMENT" /\ last.key = key /\ ~last.long
    /\ prev.app.editing_track
    /\ prev.app.edit_track_field = "TRACK_FIELD_DURATION"

\* Ok and Back in the year and in the disc number
C34_YearAndDisc ==
    /\ NumberPressed("FIELD_YEAR", "Ok") =>
           FormCD.year = Min(FormCDBefore.year * 10 + SelectedDigit, 9999)
    /\ NumberPressed("FIELD_YEAR", "Back") =>
           FormCD.year = FormCDBefore.year \div 10
    /\ NumberPressed("FIELD_DISC_NUMBER", "Ok") =>
           FormCD.disc_number = Min(FormCDBefore.disc_number * 10 + SelectedDigit, 999)
    /\ NumberPressed("FIELD_DISC_NUMBER", "Back") =>
           FormCD.disc_number = FormCDBefore.disc_number \div 10

\* Ok in the duration of a track
C34_DurationOk ==
    DurationPressed("Ok") =>
        Seconds(FormCD.tracks[1].duration)
            = Min(Seconds(FormCDBefore.tracks[1].duration) * 10 + SelectedDigit, 99999)

\* a short Back in the duration of a track
C34_DurationBack ==
    DurationPressed("Back") =>
        Seconds(FormCD.tracks[1].duration) = Seconds(FormCDBefore.tracks[1].duration) \div 10

\* the same with the cursor away from position 0
C34_DurationBackAwayFromStart ==
    (DurationPressed("Back") /\ prev.app.edit_char_pos > 0) =>
        Seconds(FormCD.tracks[1].duration) = Seconds(FormCDBefore.tracks[1].duration) \div 10

\* C34: in the year, the disc number and the duration of a track, Ok with
\* the digit d selected sets the value to min(value * 10 + d, maximum), the
\* maxima being 9999, 999 and 99999, and a short Back sets it to
\* value div 10, in every state of the editor of the field, the cursor at
\* position 0 included.
C34_NumericFields ==
    /\ C34_YearAndDisc
    /\ C34_DurationOk
    /\ C34_DurationBack


---------------------------------------------------------------------------
(* The digits of the year and of the disc number.                          *)

\* the form is on the number field
InNumberField(a, edit_field) ==
    /\ a.current_view = "VIEW_ADD_EDIT_CD"
    /\ a.edit_field = edit_field
    /\ flipchanger_get_slot(a, a.current_slot_index) # -1

\* the states of the form reached from those of S by at most n presses of
\* Up and Down that stay in the number field
RECURSIVE StayingInField(_, _, _)
StayingInField(S, edit_field, n) ==
    IF n = 0 THEN S
    ELSE StayingInField(
             S \cup {r \in {AddEditCDInput(a, files, TRUE, key, FALSE).app :
                                a \in S, key \in {"Up", "Down"}} :
                        InNumberField(r, edit_field)},
             edit_field, n - 1)

\* the selections of the palette that presses of Up and Down reach without
\* leaving the field; the handler moves a selection that is no digit to
\* the first digit before it looks at the key (lines 2085-2087, 2126-2128)
SelectableIn(edit_field) ==
    {IF a.edit_char_selection < CHAR_DIGIT_FIRST \/ a.edit_char_selection >= CHAR_DIGIT_END
     THEN CHAR_DIGIT_FIRST ELSE a.edit_char_selection :
         a \in StayingInField({app}, edit_field, CHAR_DIGIT_END - CHAR_DIGIT_FIRST)}

\* C35: in the year and in the disc number of the CD form every digit 0..9
\* is selected after some presses of Up and Down that stay in the field,
\* so that Ok appends it.
C35_EveryDigitSelectable ==
    \A edit_field \in {"FIELD_YEAR", "FIELD_DISC_NUMBER"} :
        InNumberField(app, edit_field) =>
            \A d \in 0..9 : CHAR_DIGIT_FIRST + d \in SelectableIn(edit_field)

\* the digit 0 is selected in both fields, and Ok appends it
C35_ZeroSelectable ==
    /\ \A edit_field \in {"FIELD_YEAR", "FIELD_DISC_NUMBER"} :
           InNumberField(app, edit_field) => CHAR_DIGIT_FIRST \in SelectableIn(edit_field)
    /\ NumberPressed("FIELD_YEAR", "Ok") => FormCD.year % 10 = 0 \/ FormCD.year = 9999

\* no other digit is ever the selected one in the two fields
C35_OnlyZeroSelected ==
    \A edit_field \in {"FIELD_YEAR", "FIELD_DISC_NUMBER"} :
        InNumberField(app, edit_field) => SelectableIn(edit_field) = {CHAR_DIGIT_FIRST}

\* the digit 0 was appended to the year 19
C35_ZeroAppended == NumberPressed("FIELD_YEAR", "Ok") /\ FormCD.year = 190


---------------------------------------------------------------------------
(* SpecText: insertion and deletion in the text fields.  The card holds    *)
(* one changer whose name is two characters short of its buffer and one CD *)
(* whose genre has one character or is two or three characters short of    *)
(* its buffer.  The presses lead to the genre of the CD form and to the    *)
(* name of the changer form, move the cursor, select the letter A or the   *)
(* delete entry and press Ok once on the text as the card gave it.         *)

\* n letters B, C, ... Z, B, ..., no two neighbours alike and none an A
Letters(n) == [i \in 1..n |-> CHAR_SET[(i % 25) + 2]]

GenreLengths == {1, MAX_GENRE_LENGTH - 3, MAX_GENRE_LENGTH - 2}

NamedChanger ==
    [OneChanger(CardSlots) EXCEPT ![0].name = Letters(CHANGER_NAME_LEN - 2)]

TextCards ==
    {WriteFile(CardFile(CHANGERS_STEM, RegistryOf(NamedChanger, 1)),
               CHANGER_0,
               DataText(CollectionOf([i \in {0} |-> [PlainCD EXCEPT !.genre = Letters(n)]],
                                     CardSlots))) : n \in GenreLengths}

InitText ==
    /\ phase = "boot"
    /\ app = ZeroApp
    /\ files \in TextCards
    /\ last = NoStep
    /\ prev = [app |-> app, files |-> files]

TextMenuPress(key) ==
    \/ key = "Down" /\ app.selected_index < 4
    \/ key = "Ok" /\ app.selected_index \in {0, 4}

\* the CD form: down to the genre; there the cursor is moved, the delete
\* entry selected from the letter A and back, and Ok pressed on the genre
\* of the card
GenreFormPress(key) ==
    IF app.edit_field = "FIELD_GENRE"
    THEN \/ key \in {"Left", "Right"}
         \/ key = "Up" /\ app.edit_char_selection = 0 /\ app.edit_char_pos > 0
         \/ key = "Down" /\ app.edit_char_selection = CHAR_DEL_INDEX
         \/ key = "Ok" /\ Holds(files[SlotsPath], app.slots[0])
    ELSE key = "Down" /\ app.edit_field \notin {"FIELD_NOTES", "FIELD_TRACKS", "FIELD_SAVE"}
                      /\ app.edit_char_pos = 0

\* the changer form: in the name the cursor is moved, the delete entry
\* selected from the letter A and back, and Ok pressed on the name of the
\* card
NameFormPress(key) ==
    /\ app.edit_changer_field = CHANGER_FIELD_NAME
    /\ \/ key = "Right" /\ app.edit_char_pos < Len(app.edit_changer.name)
       \/ key = "Left" /\ app.edit_char_pos > 0
       \/ key = "Up" /\ app.edit_char_selection = 0
       \/ key = "Down" /\ app.edit_char_selection = Len(CHAR_SET)
       \/ key = "Ok" /\ app.edit_changer.name = app.changers[0].name

NextText ==
    \/ Boot(TRUE)
    \/ SplashTimeout
    \/ \E key \in {"Down", "Ok"} : TextMenuPress(key) /\ InputMainMenu(key, FALSE)
    \/ app.selected_index = 0 /\ InputSlotList("Ok", FALSE, TRUE)
    \/ InputSlotDetails("Ok", TRUE)
    \/ \E key \in {"Up", "Down", "Left", "Right", "Ok"} :
           GenreFormPress(key) /\ InputAddEditCD(key, FALSE, TRUE)
    \/ app.selected_index = 0 /\ InputChangers("Ok", TRUE)
    \/ \E key \in {"Up", "Down", "Left", "Right", "Ok"} :
           NameFormPress(key) /\ InputAddEditChanger(key, TRUE)

SpecText == InitText /\ [][NextText]_vars

\* what the sentence gives for Ok on text s with the cursor at c, the
\* selection sel and at most bound characters in the field; the handlers
\* take a selection from CHAR_DEL_INDEX on as the delete entry
TextAfterOk(s, c, sel, bound) ==
    IF sel >= CHAR_DEL_INDEX
    THEN IF c < Len(s) THEN RemoveAt(s, c)
         ELSE IF c > 0 THEN RemoveAt(s, c - 1) ELSE s
    ELSE IF Len(s) < bound
    THEN SubSeq(InsertAt(s, c, CHAR_SET[sel + 1]), 1, Min(Len(s) + 1, bound))
    ELSE s

\* the step was Ok in the genre of the CD form, the cursor within the text
GenreOk ==
    /\ last.op = "VIEW_ADD_EDIT_CD" /\ last.key = "Ok"
    /\ prev.app.edit_field = "FIELD_GENRE"
    /\ prev.app.edit_char_pos <= Len(prev.app.slots[0].cd.genre)

\* the step was Ok in the name of the changer form
NameOk ==
    /\ last.op = "VIEW_ADD_EDIT_CHANGER" /\ last.key = "Ok"
    /\ prev.app.edit_changer_field = CHANGER_FIELD_NAME
    /\ prev.app.edit_char_pos <= Len(prev.app.edit_changer.name)

C36_GenreEdited ==
    GenreOk =>
        app.slots[0].cd.genre
            = TextAfterOk(prev.app.slots[0].cd.genre, prev.app.edit_char_pos,
                          prev.app.edit_char_selection, MAX_GENRE_LENGTH - 1)

C36_NameEdited ==
    NameOk =>
        app.edit_changer.name
            = TextAfterOk(prev.app.edit_changer.name, prev.app.edit_char_pos,
                          prev.app.edit_char_selection, CHANGER_NAME_LEN - 1)

\* C36: Ok in a text field holding s with the cursor at c, 0 <= c <=
\* len(s): with a character of the palette selected the text becomes
\* s[0..c) + ch + s[c..] cut at the bound of the field, for every length
\* of s below the bound; with the delete entry selected the character at
\* the cursor is removed when c < len(s), else the one before the cursor.
C36_InsertAndDelete ==
    /\ C36_GenreEdited
    /\ C36_NameEdited

\* the same for the deletions, and for the insertions into a text that is
\* three or more characters short of the buffer
C36_DeleteAndShortInsert ==
    /\ (GenreOk /\ (prev.app.edit_char_selection >= CHAR_DEL_INDEX
                    \/ Len(prev.app.slots[0].cd.genre) < MAX_GENRE_LENGTH - 2))
       => app.slots[0].cd.genre
              = TextAfterOk(prev.app.slots[0].cd.genre, prev.app.edit_char_pos,
                            prev.app.edit_char_selection, MAX_GENRE_LENGTH - 1)
    /\ (NameOk /\ prev.app.edit_char_selection >= CHAR_DEL_INDEX)
       => app.edit_changer.name
              = TextAfterOk(prev.app.edit_changer.name, prev.app.edit_char_pos,
                            prev.app.edit_char_selection, CHANGER_NAME_LEN - 1)

\* a letter was inserted inside a genre, and a character deleted from one
C36_InsertedInside ==
    /\ GenreOk /\ prev.app.edit_char_selection = 0
    /\ prev.app.edit_char_pos = 1
    /\ Len(app.slots[0].cd.genre) = MAX_GENRE_LENGTH - 2


---------------------------------------------------------------------------
(* C37 under SpecText: the palette and the delete entry.                   *)

\* the selection of the step before was a character of the palette
PaletteSelected == prev.app.edit_char_selection \in 0 .. Len(CHAR_SET) - 1

\* the character the selection of the step before stands for
SelectedChar == CHAR_SET[prev.app.edit_char_selection + 1]

\* Ok in the genre with room for two more characters
GenreOkWithRoom ==
    GenreOk /\ Len(prev.app.slots[0].cd.genre) < MAX_GENRE_LENGTH - 2

\* C37: the delete entry is one entry after the end of the palette and
\* distinct from every character of it: Ok with a character of the palette
\* selected (A-Z, 0-9, space, each punctuation mark) inserts that
\* character and removes nothing, the selection stays within the palette
\* plus the one delete entry, and only the delete entry deletes.
C37_PaletteAndSentinel ==
    /\ (GenreOkWithRoom /\ PaletteSelected)
       => app.slots[0].cd.genre
              = InsertAt(prev.app.slots[0].cd.genre, prev.app.edit_char_pos, SelectedChar)
    /\ (GenreOk /\ Len(app.slots[0].cd.genre) < Len(prev.app.slots[0].cd.genre))
       => ~PaletteSelected
    /\ (NameOk /\ Len(app.edit_changer.name) < Len(prev.app.edit_changer.name))
       => ~PaletteSelected

\* the selection stays within the palette plus one entry, and the letter A
\* is inserted where there is room
C37_SelectionWithinEntries ==
    /\ app.edit_char_selection \in 0 .. Len(CHAR_SET)
    /\ (GenreOkWithRoom /\ prev.app.edit_char_selection < CHAR_DEL_INDEX)
       => app.slots[0].cd.genre
              = InsertAt(prev.app.slots[0].cd.genre, prev.app.edit_char_pos, SelectedChar)
    /\ (NameOk /\ Len(app.edit_changer.name) < Len(prev.app.edit_changer.name))
       => prev.app.edit_char_selection = Len(CHAR_SET)

\* Ok with the last entry of the palette selected in a genre with room
C37_LastEntryPressed ==
    /\ GenreOkWithRoom
    /\ prev.app.edit_char_selection = Len(CHAR_SET) - 1
    /\ prev.app.edit_char_pos > 0


---------------------------------------------------------------------------
(* SpecRanges: numbers out of range in a slot document.  The card holds    *)
(* one changer and a slot document, not written by the application, whose  *)
(* first slot holds a CD with a year or a disc number at or beyond its     *)
(* limits, with one track or one more than MAX_TRACKS, and which declares  *)
(* CardSlots slots or one more than MAX_SLOTS.  The application starts and *)
(* the first slot is opened.                                               *)

MAX_YEAR == 9999
MAX_DISC_NUMBER == 999

\* year and disc number of the CD on the card
StoredNumbers ==
    {<<0, 0>>, <<MAX_YEAR, MAX_DISC_NUMBER>>, <<MAX_YEAR + 1, 0>>,
     <<0, MAX_DISC_NUMBER + 1>>, <<-1, 0>>, <<0, -1>>}

StoredTrackCounts == {1, MAX_TRACKS + 1}

RangeCD(numbers, track_count) ==
    [PlainCD EXCEPT !.year = numbers[1], !.disc_number = numbers[2],
                    !.tracks = [i \in 1..track_count |-> PlainTrack(i)],
                    !.track_count = track_count]

RangeCards ==
    {WriteFile(RegistryCard(CardSlots), CHANGER_0,
               DataText(CollectionOf([i \in {0} |-> RangeCD(numbers, track_count)],
                                     total_slots))) :
        numbers \in StoredNumbers, track_count \in StoredTrackCounts,
        total_slots \in {CardSlots, MAX_SLOTS + 1}}

InitRanges ==
    /\ phase = "boot"
    /\ app = ZeroApp
    /\ files \in RangeCards
    /\ last = NoStep
    /\ prev = [app |-> app, files |-> files]

NextRanges ==
    \/ Boot(TRUE)
    \/ SplashTimeout
    \/ \E key \in {"Down", "Ok"} :
           /\ key = "Ok" => app.selected_index = 0
           /\ InputMainMenu(key, FALSE)
    \/ app.selected_index = 0 /\ InputSlotList("Ok", FALSE, TRUE)

SpecRanges == InitRanges /\ [][NextRanges]_vars

\* the slot document of the card declares this CD in its first slot
CardDeclares(numbers, track_count) ==
    Holds(files[SlotsPath], OccupiedSlot(0, RangeCD(numbers, track_count)))

Loaded == phase # "boot"

\* C38: after flipchanger_load_data every numeric field of every resident
\* slot is in its range, year 0..9999, disc number 0..999, track count
\* 0..MAX_TRACKS, and total_slots is in MIN_SLOTS..MAX_SLOTS; a value of
\* the document outside its range is clamped or replaced by the default.
C38_LoadedNumbersInRange ==
    Loaded =>
        /\ app.total_slots \in MIN_SLOTS .. MAX_SLOTS
        /\ \A i \in 0 .. (SLOT_CACHE_SIZE - 1) :
               /\ app.slots[i].cd.year \in 0 .. MAX_YEAR
               /\ app.slots[i].cd.disc_number \in 0 .. MAX_DISC_NUMBER
               /\ app.slots[i].cd.track_count \in 0 .. MAX_TRACKS

\* the same without the year and without the upper limit of the disc
\* number
C38_CountsInRange ==
    Loaded =>
        /\ app.total_slots \in MIN_SLOTS .. MAX_SLOTS
        /\ \A i \in 0 .. (SLOT_CACHE_SIZE - 1) :
               /\ app.slots[i].cd.disc_number >= 0
               /\ app.slots[i].cd.track_count \in 0 .. MAX_TRACKS

\* a document with one track too many and one slot too many was loaded,
\* and its first slot holds MAX_TRACKS tracks
C38_TooManyLoaded ==
    /\ Loaded
    /\ \E numbers \in StoredNumbers : CardDeclares(numbers, MAX_TRACKS + 1)
    /\ Strstr(files[SlotsPath], 1, DATA_HEADER_A \o FormatLong(MAX_SLOTS + 1)) # 0
    /\ app.slots[0].occupied
    /\ app.slots[0].cd.track_count = MAX_TRACKS


\* the year is taken as the document gives it, and the disc number too
\* unless it is negative
C38_YearAsStored ==
    \A numbers \in StoredNumbers, track_count \in StoredTrackCounts :
        (Loaded /\ CardDeclares(numbers, track_count)) =>
            /\ app.slots[0].cd.year = numbers[1]
            /\ app.slots[0].cd.disc_number = IF numbers[2] < 0 THEN 0 ELSE numbers[2]


---------------------------------------------------------------------------
(* SpecRegistry: flipchanger_save_changers and flipchanger_load_changers   *)
(* applied to registries drawn from a bounded set: one to MAX_CHANGERS     *)
(* changers with the identifiers the application mints, names of one       *)
(* character or of the greatest length, no location or one of the greatest *)
(* length, the first or the last changer in use.                           *)

RegistryCounts == {1, 2, 3, MAX_CHANGERS}
RegistryNameLengths == {1, CHANGER_NAME_LEN - 1}
RegistryLocationLengths == {0, CHANGER_LOCATION_LEN - 1}
RegistrySlotCounts == {CardSlots, MAX_SLOTS}

RegistryApp(count, current, name_len, location_len, total_slots) ==
    [ZeroApp EXCEPT
        !.changer_count = count,
        !.current_changer_index = current,
        !.current_changer_id = MintedChangers[current].id,
        !.total_slots = total_slots,
        !.changers = [i \in 0..(MAX_CHANGERS - 1) |->
                         IF i < count
                         THEN [id |-> MintedChangers[i].id, name |-> Letters(name_len),
                               location |-> Letters(location_len),
                               total_slots |-> total_slots]
                         ELSE ZeroChanger]]

InitRegistry ==
    /\ phase = "codec"
    /\ files = FreshCard
    /\ app \in {RegistryApp(count, current, name_len, location_len, total_slots) :
                   count \in RegistryCounts, current \in {0, 1, MAX_CHANGERS - 1},
                   name_len \in RegistryNameLengths,
                   location_len \in RegistryLocationLengths,
                   total_slots \in RegistrySlotCounts}
    /\ app.current_changer_index \in {0, app.changer_count - 1}
    /\ last = NoStep
    /\ prev = [app |-> app, files |-> files]

SaveChangers ==
    /\ phase = "codec"
    /\ UNCHANGED phase
    /\ Step(Ret(app, flipchanger_save_changers(app, files, TRUE)), "save_changers",
            "none", FALSE, -1)

LoadChangers ==
    /\ phase = "codec"
    /\ CHANGERS_STEM \in DOMAIN files
    /\ UNCHANGED phase
    /\ Step(flipchanger_load_changers(app, files, TRUE), "load_changers", "none",
            FALSE, -1)

NextRegistry == SaveChangers \/ LoadChangers

SpecRegistry == InitRegistry /\ [][NextRegistry]_vars

\* the step read the registry file that holds the registry resident before
ReloadedOwnRegistry ==
    /\ last.op = "load_changers"
    /\ prev.files[CHANGERS_STEM] = RegistryText(prev.app)

SameRegistry(x, y) ==
    /\ x.changer_count = y.changer_count
    /\ x.current_changer_id = y.current_changer_id
    /\ \A i \in 0 .. (y.changer_count - 1) : x.changers[i] = y.changers[i]

\* C39: for a registry of 1 to MAX_CHANGERS changers with names and
\* locations up to the greatest length, flipchanger_save_changers followed
\* by flipchanger_load_changers gives the same number of changers, each
\* with the same identifier, name, location and slot count, in the same
\* order, and the same last-selected identifier.
C39_RegistryRoundTrip ==
    ReloadedOwnRegistry => SameRegistry(app, prev.app)

\* the same for the registries whose file fits the read buffer
C39_ShortRegistryRoundTrip ==
    (ReloadedOwnRegistry /\ Len(prev.files[CHANGERS_STEM]) < CHANGERS_BUFFER_SIZE)
        => SameRegistry(app, prev.app)

\* a registry of MAX_CHANGERS changers was saved and read, and fewer
\* changers are resident after it
C39_FullRegistryReloaded ==
    /\ ReloadedOwnRegistry
    /\ prev.app.changer_count = MAX_CHANGERS
    /\ app.changer_count < MAX_CHANGERS


---------------------------------------------------------------------------
(* SpecCursor: the cursor of the changer form.  The registry holds one or  *)
(* two changers whose name has one character and whose location has        *)
(* CursorLocationLen.  The form of the first changer is opened and walked  *)
(* with every key through all its rows; Ok is pressed once on a text as    *)
(* the card gave it, with the cursor within that text.                     *)

CursorLocationLen == 3

LocatedChangers ==
    [i \in 0..(MAX_CHANGERS - 1) |->
        [MintedChangers[i] EXCEPT !.name = Letters(1),
                                  !.location = Letters(CursorLocationLen)]]

CursorCards ==
    {CardFile(CHANGERS_STEM,
              RegistryText([current_changer_id |-> LocatedChangers[0].id,
                            changer_count |-> count,
                            changers |-> LocatedChangers])) : count \in {1, 2}}

InitCursor ==
    /\ phase = "boot"
    /\ app = ZeroApp
    /\ files \in CursorCards
    /\ last = NoStep
    /\ prev = [app |-> app, files |-> files]

\* the text of the row the form is on, <<>> on the other rows
ActiveText(a) ==
    IF a.edit_changer_field = CHANGER_FIELD_NAME THEN a.edit_changer.name
    ELSE IF a.edit_changer_field = CHANGER_FIELD_LOCATION THEN a.edit_changer.location
    ELSE <<>>

InTextRow(a) ==
    /\ a.current_view = "VIEW_ADD_EDIT_CHANGER"
    /\ a.edit_changer_field \in {CHANGER_FIELD_NAME, CHANGER_FIELD_LOCATION}

CursorMenuPress(key) ==
    \/ key = "Down" /\ app.selected_index < 4
    \/ key = "Ok" /\ app.selected_index = 4

CursorFormPress(key) ==
    IF InTextRow(app)
    THEN \/ key \in {"Left", "Right", "Back"}
         \/ key = "Up" /\ app.edit_char_selection = 0
         \/ key = "Down" /\ app.edit_char_selection = Len(CHAR_SET)
         \/ /\ key = "Ok"
            /\ app.edit_changer = app.changers[0]
            /\ app.edit_char_pos <= Len(ActiveText(app))
    ELSE IF app.edit_changer_field = CHANGER_FIELD_SLOTS
    THEN key \in {"Ok", "Back"}
    ELSE key \in {"Up", "Down", "Back"}

NextCursor ==
    \/ Boot(TRUE)
    \/ SplashTimeout
    \/ \E key \in {"Down", "Ok"} : CursorMenuPress(key) /\ InputMainMenu(key, FALSE)
    \/ app.selected_index = 0 /\ InputChangers("Ok", TRUE)
    \/ \E key \in Keys : CursorFormPress(key) /\ InputAddEditChanger(key, TRUE)

SpecCursor == InitCursor /\ [][NextCursor]_vars

CursorWithin(a) ==
    a.edit_char_pos >= 0 /\ a.edit_char_pos <= Len(ActiveText(a))

\* C40: in the changer form, whenever the Name or the Location row is
\* active, 0 <= edit_char_pos <= the length of the text of that row, after
\* every sequence of keys, moving between the rows Name, Location, Slots,
\* Save and Delete included.
C40_CursorWithinText ==
    InTextRow(app) => CursorWithin(app)

\* the same for the steps that begin in a text row with the cursor within
\* its text, and for the opening of the form
C40_TextRowsKeepCursor ==
    /\ (last.op = "VIEW_ADD_EDIT_CHANGER" /\ InTextRow(prev.app) /\ CursorWithin(prev.app)
        /\ InTextRow(app))
       => CursorWithin(app)
    /\ (last.op = "VIEW_CHANGERS" /\ InTextRow(app)) => app.edit_char_pos = 0

\* Down on the Save row brought the form to the Name row
C40_NameEnteredFromSave ==
    /\ last.op = "VIEW_ADD_EDIT_CHANGER" /\ last.key = "Down"
    /\ prev.app.edit_changer_field = CHANGER_FIELD_SAVE
    /\ app.edit_changer_field = CHANGER_FIELD_NAME
    /\ app.edit_char_pos = CursorLocationLen

===========================================================================
